---- MODULE Spec2Model ----
(***************************************************************************)
(* Smart-Feed v9: ratio enumerator, template pre-computation, gatekeeper   *)
(* and the recursive branch-and-bound search with its memo table.          *)
(*                                                                         *)
(* Python floats are modelled by rationals [n, d] in lowest terms; d = 0    *)
(* stands for float("inf").  With mantissa = 0 the arithmetic is exact and  *)
(* the only rounding is the one the code performs itself, round(qty, 0) in  *)
(* the memo key.  With mantissa = p > 0 every operation of _search, and of  *)
(* calc_r_water where it is run on its own, rounds its result to p          *)
(* significant bits, to nearest and ties to even, as IEEE binary64 does     *)
(* with p = 53; the template pre-computation, which only fixes the unit     *)
(* costs, stays exact.                                                      *)
(***************************************************************************)
EXTENDS Integers, Sequences, FiniteSets, TLC

\* ------------------------------------------------------------------ bounds
\* Largest ratio_sum_max the enumerator is run with on its own.
EnumMaxSum == 7
\* Stream quantities are drawn from 1/2 L .. MaxQtyHalf/2 L in half-liter steps.
MaxQtyHalf == 5
\* cfg.ratio_sum_max of the search runs.
RatioSumMax == 3
\* Significant bits of the floats in the runs that compute in floats.
MantissaBits == 4

\* ------------------------------------------------------- program constants
MaxStreams == 5
\* SystemConfig.ratio_sum_max as the code ships it.
DefaultRatioSumMax == 11
_MAX_TEMPLATES_PER_SUBSET == 30

\* ------------------------------------------------------- float arithmetic
Abs(x) == IF x < 0 THEN -x ELSE x

RECURSIVE gcd(_, _)
gcd(a, b) == IF b = 0 THEN a ELSE gcd(b, a % b)

\* n/d in lowest terms, d >= 0; n/0 with n > 0 is +infinity.
Rat(n, d) ==
    LET g == gcd(Abs(n), Abs(d))
        s == IF d < 0 THEN -1 ELSE 1
    IN [n |-> (s * n) \div g, d |-> (s * d) \div g]

FromInt(i) == [n |-> i, d |-> 1]
Inf == [n |-> 1, d |-> 0]
IsInf(a) == a.d = 0

\* The operations cancel common factors before they multiply, so that no
\* intermediate value is larger than the result needs.
DenGcd(a, b) == IF a.d = 0 /\ b.d = 0 THEN 1 ELSE gcd(a.d, b.d)
RAdd(a, b) ==
    IF a.d = 0 \/ b.d = 0 THEN Inf
    ELSE LET g == gcd(a.d, b.d)
         IN Rat(a.n * (b.d \div g) + b.n * (a.d \div g), (a.d \div g) * b.d)
RSub(a, b) ==
    LET g == gcd(a.d, b.d)
    IN Rat(a.n * (b.d \div g) - b.n * (a.d \div g), (a.d \div g) * b.d)
RMul(a, b) ==
    LET g1 == gcd(Abs(a.n), b.d)
        g2 == gcd(Abs(b.n), a.d)
    IN Rat((a.n \div g1) * (b.n \div g2), (a.d \div g2) * (b.d \div g1))
RDiv(a, b) == RMul(a, Rat(b.d, b.n))
RLt(a, b) == a.n * (b.d \div DenGcd(a, b)) < b.n * (a.d \div DenGcd(a, b))
RLe(a, b) == a.n * (b.d \div DenGcd(a, b)) <= b.n * (a.d \div DenGcd(a, b))
RMax(a, b) == IF RLt(a, b) THEN b ELSE a
RMin(a, b) == IF RLt(b, a) THEN b ELSE a

\* Python round(q, 0) for q >= 0: nearest integer, ties to the even one.
round(q) ==
    LET fl  == q.n \div q.d
        rem == q.n - fl * q.d
    IN IF 2 * rem < q.d THEN fl
       ELSE IF 2 * rem > q.d THEN fl + 1
       ELSE IF fl % 2 = 0 THEN fl ELSE fl + 1

\* The float format _search computes in: the number of significant bits a
\* result is rounded to (binary64 has 53); 0 stands for exact arithmetic.
VARIABLE mantissa

RECURSIVE pow2(_)
pow2(k) == IF k = 0 THEN 1 ELSE 2 * pow2(k - 1)

\* Round-to-nearest, ties-to-even, of n/d > 0 to p significant bits: the
\* value is scaled by 2^e into [2^(p-1), 2^p), rounded to an integer and
\* scaled back.
RECURSIVE RoundBits(_, _, _, _)
RoundBits(n, d, e, p) ==
    IF n >= d * pow2(p) THEN RoundBits(n, 2 * d, e + 1, p)
    ELSE IF n < d * pow2(p - 1) THEN RoundBits(2 * n, d, e - 1, p)
    ELSE LET m == round([n |-> n, d |-> d])
         IN IF e >= 0 THEN Rat(m * pow2(e), 1) ELSE Rat(m, pow2(-e))

Nearest(x) ==
    IF x.d = 0 \/ x.n = 0 THEN x
    ELSE LET r == RoundBits(Abs(x.n), x.d, 0, mantissa)
         IN IF x.n < 0 THEN [n |-> -r.n, d |-> r.d] ELSE r

\* The float that an operation with the exact result x yields.
Fl(x) == IF mantissa = 0 THEN x ELSE CHOOSE r \in {Nearest(v) : v \in {x}} : TRUE

RECURSIVE SumSeq(_)
SumSeq(s) == IF s = <<>> THEN 0 ELSE Head(s) + SumSeq(Tail(s))

\* reduce(gcd, combo)
RECURSIVE GcdSeq(_)
GcdSeq(s) == IF Len(s) = 1 THEN s[1] ELSE gcd(s[1], GcdSeq(Tail(s)))

\* --------------------------------------------------------------- ratios.py
\* itertools.product(range(1, upper + 1), repeat=repeat), in its order.
RECURSIVE product(_, _)
product(upper, repeat) ==
    IF repeat = 0 THEN << <<>> >>
    ELSE LET rest == product(upper, repeat - 1)
             RECURSIVE Block(_)
             Block(first) ==
                 IF first > upper THEN <<>>
                 ELSE [i \in 1..Len(rest) |-> <<first>> \o rest[i]] \o Block(first + 1)
         IN Block(1)

\* The successor of combo in product's order (the rightmost component moves
\* fastest); <<>> after the last one.
RECURSIVE NextCombo(_, _)
NextCombo(combo, upper) ==
    IF combo = <<>> THEN <<>>
    ELSE LET k == Len(combo) IN
         IF combo[k] < upper THEN [combo EXCEPT ![k] = combo[k] + 1]
         ELSE LET front == NextCombo(SubSeq(combo, 1, k - 1), upper)
              IN IF front = <<>> THEN <<>> ELSE Append(front, 1)

\* Variant of the filters that also drops a combo whose first component is at
\* the per-component cap.
RatioRejectedAtCap(combo, max_sum) ==
    \/ SumSeq(combo) > max_sum
    \/ GcdSeq(combo) # 1
    \/ (Len(combo) > 1 /\ combo[1] = max_sum - Len(combo) + 1)

\* Variant of the filters without the gcd test.
RatioRejectedSumOnly(combo, max_sum) ==
    SumSeq(combo) > max_sum

\* Variant of the filters whose sum test is off by one.
RatioRejectedAtSum(combo, max_sum) ==
    \/ SumSeq(combo) >= max_sum
    \/ GcdSeq(combo) # 1

\* The two `continue` filters of the loop body.
RatioRejected(combo, max_sum) ==
    \/ SumSeq(combo) > max_sum
    \/ GcdSeq(combo) # 1

generate_ratios(n_streams, max_sum) ==
    IF n_streams = 1 THEN << <<1>> >>
    ELSE LET upper == max_sum - n_streams + 1
         IN SelectSeq(product(upper, n_streams),
                      LAMBDA combo : ~RatioRejected(combo, max_sum))

\* -------------------------------------------------------------- models.py
Zero == FromInt(0)
One == FromInt(1)
Half == Rat(1, 2)

\* The order of sorted(streams_map.keys()) on the stream ids of the model.
IdOrder == <<"A", "B", "C">>
StreamIds == {IdOrder[i] : i \in 1..Len(IdOrder)}

\* WasteStream attributes of the three streams (quantity_L is drawn per run):
\* A needs NaOH only, B needs water, diesel and NaOH, C is too alkaline to be
\* fed alone but can be blended.
Catalog ==
    [A |-> [btu_per_lb |-> FromInt(22), pH |-> 5, f_ppm |-> FromInt(2),
            solid_pct |-> Zero, salt_ppm |-> Zero],
     B |-> [btu_per_lb |-> Zero, pH |-> 5, f_ppm |-> FromInt(2),
            solid_pct |-> FromInt(60), salt_ppm |-> Zero],
     C |-> [btu_per_lb |-> FromInt(22), pH |-> 10, f_ppm |-> Zero,
            solid_pct |-> Zero, salt_ppm |-> Zero]]

\* SystemConfig of the runs (a small-number instance of the tunable fields).
BaseConfig ==
    [F_total |-> FromInt(11), P_system |-> FromInt(40),
     BTU_diesel |-> FromInt(20), eta |-> Rat(9, 10),
     BTU_target |-> FromInt(22), solid_max_pct |-> FromInt(15),
     pH_max |-> 9, salt_max_ppm |-> FromInt(5000),
     K_F_TO_ACID |-> One, K_PH_TO_BASE |-> FromInt(50),
     K_ACID_TO_NAOH_VOL |-> Rat(1, 10),
     cost_diesel_per_L |-> One, cost_naoh_per_L |-> FromInt(2),
     cost_water_per_L |-> Rat(1, 10), cost_electricity_per_kWh |-> One,
     cost_labor_per_hr |-> FromInt(20),
     ratio_sum_max |-> RatioSumMax, W_min |-> Half]

\* ------------------------------------------------------------- blending.py
RECURSIVE Pow10(_)
Pow10(k) == IF k = 0 THEN 1 ELSE 10 * Pow10(k - 1)

\* 10.0 ** (-pH) for an integer pH, in units of 10 ** (-7).
HPlus(pH) == IF pH <= 7 THEN FromInt(Pow10(7 - pH)) ELSE Rat(1, Pow10(pH - 7))

\* A pH value is carried as its [H+] concentration h (in units of 10 ** (-7)),
\* pH = 7 - log10(h), so that the comparisons the code makes on a pH are
\* exact: pH > p iff h < HPlus(p).
pHGreater(h, p) == RLt(h, HPlus(p))

\* ceil(pH - 7.0) for a pH above 7, from the decade h lies in.
RECURSIVE pHExcessCeil(_, _)
pHExcessCeil(h, k) ==
    IF k >= 7 \/ ~pHGreater(h, 7 + k) THEN k ELSE pHExcessCeil(h, k + 1)

\* max(0.0, blend.pH - 7.0): exact (0) for pH <= 7, rounded up to a whole pH
\* unit above 7.
pHAbove7(h) == IF pHGreater(h, 7) THEN FromInt(pHExcessCeil(h, 1)) ELSE Zero

\* sum(v * r for v, r in zip(values, ratios))
RECURSIVE WeightedSum(_, _)
WeightedSum(values, ratios) ==
    IF values = <<>> THEN Zero
    ELSE RAdd(RMul(Head(values), FromInt(Head(ratios))),
              WeightedSum(Tail(values), Tail(ratios)))

blend_linear(values, ratios) ==
    LET total == SumSeq(ratios)
    IN IF total = 0 THEN Zero
       ELSE RDiv(WeightedSum(values, ratios), FromInt(total))

\* The blended pH, as its [H+] concentration (pH 7.0 is h = 1, pH 14.0 is the
\* h of "extremely alkaline").
blend_pH(pH_values, ratios) ==
    LET total == SumSeq(ratios)
        h_concentration ==
            RDiv(WeightedSum([i \in 1..Len(pH_values) |-> HPlus(pH_values[i])],
                             ratios),
                 FromInt(total))
    IN IF total = 0 THEN One
       ELSE IF RLe(h_concentration, Zero) THEN HPlus(14)
       ELSE h_concentration

\* streams: the sequence of WasteStream records of the subset.
calc_blend_properties(streams, ratios) ==
    LET col(f) == [i \in 1..Len(streams) |-> streams[i][f]]
    IN [btu_per_lb |-> blend_linear(col("btu_per_lb"), ratios),
        pH         |-> blend_pH(col("pH"), ratios),
        f_ppm      |-> blend_linear(col("f_ppm"), ratios),
        solid_pct  |-> blend_linear(col("solid_pct"), ratios),
        salt_ppm   |-> blend_linear(col("salt_ppm"), ratios)]

\* ----------------------------------------------------------- gatekeeper.py
calc_r_water(blend, cfg) ==
    LET r_solid == RMax(Zero, RSub(RDiv(blend.solid_pct, cfg.solid_max_pct), One))
        r_salt  == RMax(Zero, RSub(RDiv(blend.salt_ppm, cfg.salt_max_ppm), One))
    IN RMax(r_solid, r_salt)

\* Variant of calc_r_water that adds up the two demands.
calc_r_water_sum(blend, cfg) ==
    LET r_solid == RMax(Zero, Fl(RSub(Fl(RDiv(blend.solid_pct, cfg.solid_max_pct)), One)))
        r_salt  == RMax(Zero, Fl(RSub(Fl(RDiv(blend.salt_ppm, cfg.salt_max_ppm)), One)))
    IN Fl(RAdd(r_solid, r_salt))

\* calc_r_water where it is run on its own: the same lines 28-30, each
\* operation rounding as a float operation does (exact with mantissa = 0).
calc_r_water_fl(blend, cfg) ==
    LET r_solid == RMax(Zero, Fl(RSub(Fl(RDiv(blend.solid_pct, cfg.solid_max_pct)), One)))
        r_salt  == RMax(Zero, Fl(RSub(Fl(RDiv(blend.salt_ppm, cfg.salt_max_ppm)), One)))
    IN RMax(r_solid, r_salt)

calc_r_diesel(blend, r_water, cfg) ==
    LET BTU_eff == RDiv(blend.btu_per_lb, RAdd(One, r_water))
    IN RMax(Zero, RDiv(RSub(cfg.BTU_target, BTU_eff),
                       RMul(cfg.BTU_diesel, cfg.eta)))

calc_r_naoh(blend, cfg) ==
    LET acid_load == RMul(blend.f_ppm, cfg.K_F_TO_ACID)
        base_load == RMul(pHAbove7(blend.pH), cfg.K_PH_TO_BASE)
        net_acid  == RMax(Zero, RSub(acid_load, base_load))
    IN RMul(net_acid, cfg.K_ACID_TO_NAOH_VOL)

\* (r_water, r_diesel, r_naoh)
gatekeeper(blend, cfg) ==
    LET r_water == calc_r_water(blend, cfg)
    IN [r_water  |-> r_water,
        r_diesel |-> calc_r_diesel(blend, r_water, cfg),
        r_naoh   |-> calc_r_naoh(blend, cfg)]

calc_throughput(r_water, r_diesel, r_naoh, cfg) ==
    LET r_ext == RAdd(RAdd(r_water, r_diesel), r_naoh)
    IN RDiv(cfg.F_total, RAdd(One, r_ext))

\* Variant of calc_phase_cost whose total leaves the labor cost out.
calc_phase_cost_no_labor(W, r_water, r_diesel, r_naoh, runtime_min, cfg) ==
    LET runtime_hr == RDiv(runtime_min, FromInt(60))
        cost_diesel == RMul(RMul(RMul(W, r_diesel), runtime_min), cfg.cost_diesel_per_L)
        cost_naoh == RMul(RMul(RMul(W, r_naoh), runtime_min), cfg.cost_naoh_per_L)
        cost_water == RMul(RMul(RMul(W, r_water), runtime_min), cfg.cost_water_per_L)
        cost_electricity ==
            RMul(RMul(cfg.P_system, runtime_hr), cfg.cost_electricity_per_kWh)
        cost_labor == RMul(runtime_hr, cfg.cost_labor_per_hr)
    IN [cost_diesel |-> cost_diesel,
        cost_naoh |-> cost_naoh,
        cost_water |-> cost_water,
        cost_electricity |-> cost_electricity,
        cost_labor |-> cost_labor,
        cost_total |-> RAdd(RAdd(RAdd(cost_diesel, cost_naoh), cost_water),
                            cost_electricity)]

calc_phase_cost(W, r_water, r_diesel, r_naoh, runtime_min, cfg) ==
    LET runtime_hr == RDiv(runtime_min, FromInt(60))
        cost_diesel == RMul(RMul(RMul(W, r_diesel), runtime_min), cfg.cost_diesel_per_L)
        cost_naoh == RMul(RMul(RMul(W, r_naoh), runtime_min), cfg.cost_naoh_per_L)
        cost_water == RMul(RMul(RMul(W, r_water), runtime_min), cfg.cost_water_per_L)
        cost_electricity ==
            RMul(RMul(cfg.P_system, runtime_hr), cfg.cost_electricity_per_kWh)
        cost_labor == RMul(runtime_hr, cfg.cost_labor_per_hr)
    IN [cost_diesel |-> cost_diesel,
        cost_naoh |-> cost_naoh,
        cost_water |-> cost_water,
        cost_electricity |-> cost_electricity,
        cost_labor |-> cost_labor,
        cost_total |-> RAdd(RAdd(RAdd(RAdd(cost_diesel, cost_naoh), cost_water),
                                 cost_electricity), cost_labor)]

\* --------------------------------------------------------------- search.py
_ACTIVE_THRESHOLD_L == Half

\* itertools.combinations(ids, k), in its order.
RECURSIVE combinations(_, _)
combinations(ids, k) ==
    IF k = 0 THEN << <<>> >>
    ELSE IF Len(ids) < k THEN <<>>
    ELSE LET withHead == combinations(Tail(ids), k - 1)
         IN [i \in 1..Len(withHead) |-> <<Head(ids)>> \o withHead[i]]
            \o combinations(Tail(ids), k)

\* list.sort(key=...) is stable: the permutation that sorts keys ascending and
\* keeps equal keys in their original order.
RECURSIVE InsertIdx(_, _, _)
InsertIdx(sorted, j, keys) ==
    IF sorted = <<>> THEN <<j>>
    ELSE IF RLt(keys[j], keys[Head(sorted)]) THEN <<j>> \o sorted
    ELSE <<Head(sorted)>> \o InsertIdx(Tail(sorted), j, keys)

RECURSIVE SortPerm(_, _)
SortPerm(keys, k) ==
    IF k = 0 THEN <<>> ELSE InsertIdx(SortPerm(keys, k - 1), k, keys)

SortedBy(seq, keys) ==
    LET p == SortPerm(keys, Len(keys)) IN [i \in 1..Len(seq) |-> seq[p[i]]]

RECURSIVE Concat(_)
Concat(seqs) == IF seqs = <<>> THEN <<>> ELSE Head(seqs) \o Concat(Tail(seqs))

SeqToSet(s) == {s[i] : i \in 1..Len(s)}

\* Lines 102-104.
fixed_cost_per_min(cfg) ==
    RDiv(RAdd(RMul(cfg.P_system, cfg.cost_electricity_per_kWh),
              cfg.cost_labor_per_hr), FromInt(60))

\* Lines 130-137; g is the gatekeeper's (r_water, r_diesel, r_naoh).
cost_per_batch(sum_ratios, g, W, cfg) ==
    LET material_cost_per_min ==
            RMul(W, RAdd(RAdd(RMul(g.r_diesel, cfg.cost_diesel_per_L),
                              RMul(g.r_naoh, cfg.cost_naoh_per_L)),
                         RMul(g.r_water, cfg.cost_water_per_L)))
        cost_rate_per_min == RAdd(material_cost_per_min, fixed_cost_per_min(cfg))
    IN RMul(RDiv(FromInt(sum_ratios), W), cost_rate_per_min)

\* Lines 124-150: Prune 1b, or the template.
template_of(subset, ratios, blend, g, W, cfg) ==
    IF RLt(W, cfg.W_min) THEN [feasible |-> FALSE]
    ELSE [feasible |-> TRUE,
          tmpl |-> [stream_ids |-> subset, ratios |-> ratios, blend |-> blend,
                    r_water |-> g.r_water, r_diesel |-> g.r_diesel,
                    r_naoh |-> g.r_naoh,
                    r_ext |-> RAdd(RAdd(g.r_water, g.r_diesel), g.r_naoh),
                    W |-> W,
                    cost_per_batch |-> cost_per_batch(SumSeq(ratios), g, W, cfg),
                    sum_ratios |-> SumSeq(ratios)]]

\* Lines 121-122.
rate_blend(subset, ratios, blend, g, cfg) ==
    template_of(subset, ratios, blend, g,
                calc_throughput(g.r_water, g.r_diesel, g.r_naoh, cfg), cfg)

\* Lines 116-119: Prune 1a, or on to the gatekeeper.
gate_blend(subset, ratios, blend, cfg) ==
    IF pHGreater(blend.pH, cfg.pH_max) THEN [feasible |-> FALSE]
    ELSE rate_blend(subset, ratios, blend, gatekeeper(blend, cfg), cfg)

\* One iteration of the loop over ratios_list (lines 112-150): the template of
\* (subset, ratios), or the fact that Prune 1a / 1b dropped it.
evaluate_template(subset, ratios, streams_map, cfg) ==
    gate_blend(subset, ratios,
               calc_blend_properties(
                   [i \in 1..Len(subset) |-> streams_map[subset[i]]], ratios),
               cfg)

\* Variant of the quota that keeps the first K templates as evaluated, unsorted.
keep_first(templates) ==
    SubSeq(templates, 1, IF Len(templates) < _MAX_TEMPLATES_PER_SUBSET
                         THEN Len(templates) ELSE _MAX_TEMPLATES_PER_SUBSET)

\* Variant of the quota that sorts and keeps every template.
keep_sorted(templates) ==
    SortedBy(templates, [i \in 1..Len(templates) |-> templates[i].cost_per_batch])

\* Lines 152-155: sort by cost_per_batch, keep the K most economical.
keep_cheapest(templates) ==
    LET sorted == SortedBy(templates,
                           [i \in 1..Len(templates) |-> templates[i].cost_per_batch])
    IN SubSeq(sorted, 1, IF Len(sorted) < _MAX_TEMPLATES_PER_SUBSET
                         THEN Len(sorted) ELSE _MAX_TEMPLATES_PER_SUBSET)

\* The body of the loop over subsets (lines 108-157) for one subset.
subset_templates(subset, streams_map, cfg, ratio_cache) ==
    LET ratios_list == ratio_cache[Len(subset)]
        evals == [i \in 1..Len(ratios_list) |->
                      evaluate_template(subset, ratios_list[i], streams_map, cfg)]
        feas  == SelectSeq(evals, LAMBDA e : e.feasible)
        templates == [i \in 1..Len(feas) |-> feas[i].tmpl]
    IN [key |-> SeqToSet(subset),
        n_total |-> Len(ratios_list),
        n_infeasible |-> Len(ratios_list) - Len(feas),
        kept |-> IF templates = <<>> THEN <<>> ELSE keep_cheapest(templates)]

RECURSIVE SumField(_, _)
SumField(s, f) == IF s = <<>> THEN 0 ELSE Head(s)[f] + SumField(Tail(s), f)

\* (templates_by_subset, n_total, n_infeasible, n_feasible); templates_by_subset
\* is the dict in insertion order, as a sequence of [key, kept].
_precompute_templates(streams_map, cfg, ratio_cache) ==
    LET all_ids == SelectSeq(IdOrder, LAMBDA sid : sid \in DOMAIN streams_map)
        subsets == Concat([size \in 1..Len(all_ids) |-> combinations(all_ids, size)])
        per == [i \in 1..Len(subsets) |->
                    subset_templates(subsets[i], streams_map, cfg, ratio_cache)]
        indexed == SelectSeq(per, LAMBDA e : e.kept # <<>>)
    IN [templates_by_subset |->
            [i \in 1..Len(indexed) |-> [key |-> indexed[i].key, kept |-> indexed[i].kept]],
        n_total |-> SumField(per, "n_total"),
        n_infeasible |-> SumField(per, "n_infeasible"),
        n_feasible |-> SumSeq([i \in 1..Len(indexed) |-> Len(indexed[i].kept)])]

\* ------------------------------------------------------------------- state
VARIABLES
    g_pc,          \* generate_ratios call: "start", "loop", "done" ("idle": not run)
    g_n,           \* n_streams
    g_max,         \* max_sum
    g_combo,       \* the loop variable combo
    g_results,     \* results
    pc,            \* search(): "start", "call", "loop", "ret", "done" ("idle": not run)
    streams,       \* streams_map: stream_id -> WasteStream (the input, never written)
    cfg,           \* SystemConfig
    all_templates, \* templates_by_subset
    memo,          \* memo_key -> (sub_cost, phases)
    stats,         \* search statistics
    stack,         \* the _search activations that are inside their candidate loop
    arg,           \* (inv, depth) of the _search call being entered
    ret,           \* the value the last finished _search call returned
    result,        \* what build_optimized_schedule ends with
    plan,          \* the (streams, cfg) inputs of the runs still to come
    history,       \* (streams, cfg, result) of the runs that came before
    r_pc,          \* run_optimization(): "validate", "loop", "baseline", "search",
                   \* "searching", "returned", "raised" ("idle": not run)
    r_streams,     \* its argument streams, a list
    r_i,           \* _validate_streams: position of the loop over streams
    r_ids,         \* _validate_streams: ids
    r_calls        \* the pipeline steps run_optimization has called

gvars == <<g_pc, g_n, g_max, g_combo, g_results>>
svars == <<pc, streams, cfg, all_templates, memo, stats, stack, arg, ret, result>>
hvars == <<plan, history, mantissa>>
rvars == <<r_pc, r_streams, r_i, r_ids, r_calls>>
vars == <<g_pc, g_n, g_max, g_combo, g_results,
          pc, streams, cfg, all_templates, memo, stats, stack, arg, ret, result,
          plan, history, mantissa,
          r_pc, r_streams, r_i, r_ids, r_calls>>

NoStats == [evaluated |-> 0, pruned_infeasible |-> 0, templates_kept |-> 0,
            pruned_bound |-> 0, memo_hits |-> 0]
NoArg == [inv |-> <<>>, depth |-> 0]
NoRet == [sub_cost |-> Zero, phases |-> <<>>]
NoResult == [best_cost |-> Zero, best_phases |-> <<>>,
             schedule |-> [is_none |-> TRUE]]

GenIdle ==
    /\ g_pc = "idle" /\ g_n = 0 /\ g_max = 0 /\ g_combo = <<>> /\ g_results = <<>>

SearchIdle ==
    /\ pc = "idle" /\ streams = <<>> /\ cfg = BaseConfig /\ all_templates = <<>>
    /\ memo = <<>> /\ stats = NoStats /\ stack = <<>> /\ arg = NoArg
    /\ ret = NoRet /\ result = NoResult
    /\ plan = <<>> /\ history = <<>>
    /\ mantissa = 0

RunIdle ==
    /\ r_pc = "idle" /\ r_streams = <<>> /\ r_i = 0 /\ r_ids = {} /\ r_calls = <<>>

\* ------------------------------------------------- generate_ratios, stepwise
\* One call generate_ratios(n, maxSum), n in 1..5, maxSum >= n.
GenInit ==
    /\ g_pc = "start"
    /\ g_n \in 1..MaxStreams
    /\ g_max \in g_n..EnumMaxSum
    /\ g_combo = <<>>
    /\ g_results = <<>>
    /\ SearchIdle
    /\ RunIdle

\* Lines 34-38: the n = 1 early return, or the first combo of the product.
GenStart ==
    /\ g_pc = "start"
    /\ IF g_n = 1
       THEN /\ g_results' = << <<1>> >>
            /\ g_combo' = <<>>
            /\ g_pc' = "done"
       ELSE LET upper == g_max - g_n + 1 IN
            /\ g_results' = <<>>
            /\ g_combo' = IF upper >= 1 THEN [i \in 1..g_n |-> 1] ELSE <<>>
            /\ g_pc' = IF upper >= 1 THEN "loop" ELSE "done"
    /\ UNCHANGED <<g_n, g_max>>
    /\ UNCHANGED svars
    /\ UNCHANGED hvars
    /\ UNCHANGED rvars

\* Lines 40-45: one iteration of the loop over the product.
GenStep ==
    /\ g_pc = "loop"
    /\ LET upper == g_max - g_n + 1
           nxt   == NextCombo(g_combo, upper)
       IN /\ g_results' = IF RatioRejected(g_combo, g_max) THEN g_results
                          ELSE Append(g_results, g_combo)
          /\ g_combo' = nxt
          /\ g_pc' = IF nxt = <<>> THEN "done" ELSE "loop"
    /\ UNCHANGED <<g_n, g_max>>
    /\ UNCHANGED svars
    /\ UNCHANGED hvars
    /\ UNCHANGED rvars

GenNext == GenStart \/ GenStep

SpecRatios == GenInit /\ [][GenNext]_vars

\* ------------------------------------------------------------ search inputs
Quantities == {Rat(k, 2) : k \in 1..MaxQtyHalf}

\* Every list of one to three catalog streams, each with a quantity of the grid.
StreamSets ==
    UNION {[ids -> Quantities] : ids \in (SUBSET StreamIds) \ {{}}}

WasteStreams(qty) ==
    [sid \in DOMAIN qty |->
        [quantity_L |-> qty[sid], btu_per_lb |-> Catalog[sid].btu_per_lb,
         pH |-> Catalog[sid].pH, f_ppm |-> Catalog[sid].f_ppm,
         solid_pct |-> Catalog[sid].solid_pct, salt_ppm |-> Catalog[sid].salt_ppm]]

Init ==
    /\ GenIdle
    /\ RunIdle
    /\ pc = "start"
    /\ \E qty \in StreamSets : streams = WasteStreams(qty)
    /\ cfg = BaseConfig
    /\ all_templates = <<>>
    /\ memo = <<>>
    /\ stats = NoStats
    /\ stack = <<>>
    /\ arg = NoArg
    /\ ret = NoRet
    /\ result = NoResult
    /\ plan = <<>>
    /\ history = <<>>
    /\ mantissa = 0

\* ------------------------------------------------------------------ search()
N == Cardinality(DOMAIN streams)

\* Lines 190-204: pre is what _precompute_templates returned.
Precomputed(pre) ==
    /\ all_templates' = pre.templates_by_subset
    /\ stats' = [evaluated |-> pre.n_total,
                 pruned_infeasible |-> pre.n_infeasible,
                 templates_kept |-> pre.n_feasible,
                 pruned_bound |-> 0,
                 memo_hits |-> 0]

\* Variant of the memo creation: the table the last call left behind.
LeftoverMemo == memo

\* Line 195: memo = {}.
EmptyMemo == <<>>

\* Lines 180-204 and the root call of line 309.
Begin ==
    /\ pc = "start"
    /\ Precomputed(_precompute_templates(
                       streams, cfg,
                       [n \in 1..N |-> generate_ratios(n, cfg.ratio_sum_max)]))
    /\ memo' = EmptyMemo
    /\ stack' = <<>>
    /\ arg' = [inv |-> [sid \in DOMAIN streams |-> streams[sid].quantity_L],
               depth |-> 0]
    /\ pc' = "call"
    /\ UNCHANGED <<streams, cfg, ret, result>>
    /\ UNCHANGED gvars
    /\ UNCHANGED hvars
    /\ UNCHANGED rvars

\* Lines 220-221.
ActiveOf(inv) ==
    LET ids == {sid \in DOMAIN inv : RLt(_ACTIVE_THRESHOLD_L, inv[sid])}
    IN [sid \in ids |-> inv[sid]]

\* Variant of the memo key that names the active streams only.
MemoKeyIds(active) == {<<sid, 0>> : sid \in DOMAIN active}

\* Lines 233-235.
MemoKey(active) == {<<sid, round(active[sid])>> : sid \in DOMAIN active}

\* Variant of num_batches: the quotient of the first stream, not the min.
FirstBatches(active, ids, ratios) ==
    Fl(RDiv(active[Head(ids)], FromInt(Head(ratios))))

\* min(active[sid] / ratio for sid, ratio in zip(tmpl.stream_ids, tmpl.ratios))
RECURSIVE MinBatches(_, _, _)
MinBatches(active, ids, ratios) ==
    LET first == Fl(RDiv(active[Head(ids)], FromInt(Head(ratios))))
    IN IF Len(ids) = 1 THEN first
       ELSE RMin(first, MinBatches(active, Tail(ids), Tail(ratios)))

\* Lines 248-254 for one template.
Candidate(tmpl, active) ==
    LET num_batches == MinBatches(active, tmpl.stream_ids, tmpl.ratios)
    IN [cost |-> Fl(RMul(num_batches, tmpl.cost_per_batch)),
        tmpl |-> tmpl, num_batches |-> num_batches]

\* Variant of the candidate list that offers a blend template only, as soon as
\* one applies.
CandidatesBlendFirst(active) ==
    LET applicable == SelectSeq(all_templates,
                                LAMBDA e : e.key \subseteq DOMAIN active)
        blends == SelectSeq(applicable, LAMBDA e : Cardinality(e.key) > 1)
        used == IF blends = <<>> THEN applicable ELSE blends
        tmpls == Concat([i \in 1..Len(used) |-> used[i].kept])
        cands == [i \in 1..Len(tmpls) |-> Candidate(tmpls[i], active)]
    IN SortedBy(cands, [i \in 1..Len(cands) |-> cands[i].cost])

\* Variant of the candidate list without the sort of line 257: the candidates
\* in the order lines 245-254 collect them.
CandidatesAsCollected(active) ==
    LET applicable == SelectSeq(all_templates,
                                LAMBDA e : e.key \subseteq DOMAIN active)
        tmpls == Concat([i \in 1..Len(applicable) |-> applicable[i].kept])
    IN [i \in 1..Len(tmpls) |-> Candidate(tmpls[i], active)]

\* Lines 244-257: the candidates of a node, sorted by cost.
Candidates(active) ==
    LET applicable == SelectSeq(all_templates,
                                LAMBDA e : e.key \subseteq DOMAIN active)
        tmpls == Concat([i \in 1..Len(applicable) |-> applicable[i].kept])
        cands == [i \in 1..Len(tmpls) |-> Candidate(tmpls[i], active)]
    IN SortedBy(cands, [i \in 1..Len(cands) |-> cands[i].cost])

\* Variant of new_inv that starts from the active streams, not from a copy of
\* inv.
NewInvOfActive(inv, active, tmpl, num_batches) ==
    LET pos(sid) == CHOOSE i \in 1..Len(tmpl.stream_ids) : tmpl.stream_ids[i] = sid
    IN [sid \in DOMAIN active |->
          IF sid \in SeqToSet(tmpl.stream_ids)
          THEN Fl(RSub(active[sid],
                       Fl(RMul(FromInt(tmpl.ratios[pos(sid)]), num_batches))))
          ELSE active[sid]]

\* Lines 270-272.
NewInv(inv, active, tmpl, num_batches) ==
    LET pos(sid) == CHOOSE i \in 1..Len(tmpl.stream_ids) : tmpl.stream_ids[i] = sid
    IN [sid \in DOMAIN inv |->
          IF sid \in SeqToSet(tmpl.stream_ids)
          THEN Fl(RSub(active[sid],
                       Fl(RMul(FromInt(tmpl.ratios[pos(sid)]), num_batches))))
          ELSE inv[sid]]

\* Lines 281-298.
PhaseOf(tmpl, num_batches) ==
    LET Q_phase == Fl(RMul(FromInt(tmpl.sum_ratios), num_batches))
        runtime_min == Fl(RDiv(Q_phase, tmpl.W))
        costs == calc_phase_cost(tmpl.W, tmpl.r_water, tmpl.r_diesel, tmpl.r_naoh,
                                 runtime_min, cfg)
        pos(sid) == CHOOSE i \in 1..Len(tmpl.stream_ids) : tmpl.stream_ids[i] = sid
    IN [streams |-> [sid \in SeqToSet(tmpl.stream_ids) |-> tmpl.ratios[pos(sid)]],
        blend_props |-> tmpl.blend,
        r_water |-> tmpl.r_water, r_diesel |-> tmpl.r_diesel,
        r_naoh |-> tmpl.r_naoh, r_ext |-> tmpl.r_ext, W |-> tmpl.W,
        runtime_min |-> runtime_min, Q_phase |-> Q_phase,
        cost_diesel |-> costs.cost_diesel, cost_naoh |-> costs.cost_naoh,
        cost_water |-> costs.cost_water,
        cost_electricity |-> costs.cost_electricity,
        cost_labor |-> costs.cost_labor, cost_total |-> costs.cost_total]

\* Entering _search(inv, depth), lines 218-259: the terminal return, the depth
\* bound, the memo hit, or the start of the candidate loop.
Enter ==
    /\ pc = "call"
    /\ LET active == ActiveOf(arg.inv)
           memo_key == MemoKey(active)
       IN IF DOMAIN active = {}
          THEN /\ ret' = [sub_cost |-> Zero, phases |-> <<>>]
               /\ pc' = "ret"
               /\ UNCHANGED <<stats, stack>>
          ELSE IF arg.depth > N
          THEN /\ ret' = [sub_cost |-> Inf, phases |-> <<>>]
               /\ pc' = "ret"
               /\ UNCHANGED <<stats, stack>>
          ELSE IF memo_key \in DOMAIN memo
          THEN /\ stats' = [stats EXCEPT !.memo_hits = @ + 1]
               /\ ret' = memo[memo_key]
               /\ pc' = "ret"
               /\ UNCHANGED stack
          ELSE /\ stack' = Append(stack,
                      [inv |-> arg.inv, depth |-> arg.depth, active |-> active,
                       memo_key |-> memo_key, candidates |-> Candidates(active),
                       i |-> 0, best_sub_cost |-> Inf,
                       best_found |-> FALSE, best_phases |-> <<>>])
               /\ pc' = "loop"
               /\ UNCHANGED <<stats, ret>>
    /\ UNCHANGED <<streams, cfg, all_templates, memo, arg, result>>
    /\ UNCHANGED gvars
    /\ UNCHANGED hvars
    /\ UNCHANGED rvars

Top == stack[Len(stack)]
Pop == SubSeq(stack, 1, Len(stack) - 1)

\* Variant of the dead-end result: (0, []) instead of (inf, []).
StoredZero(f) ==
    IF f.best_found
    THEN [sub_cost |-> f.best_sub_cost, phases |-> f.best_phases]
    ELSE [sub_cost |-> Zero, phases |-> <<>>]

\* Lines 301-307: cache the node's result and return it.
Stored(f) ==
    IF f.best_found
    THEN [sub_cost |-> f.best_sub_cost, phases |-> f.best_phases]
    ELSE [sub_cost |-> Inf, phases |-> <<>>]

\* Variant of the memo store that stores nothing.
MemoSkip(m, key, value) == m

\* Lines 303 and 305: memo[memo_key] = value.
MemoPut(m, key, value) ==
    [k \in DOMAIN m \cup {key} |-> IF k = key THEN value ELSE m[k]]

\* Lines 262-275: the next candidate is below best_sub_cost; recurse into it.
Recurse ==
    /\ pc = "loop"
    /\ Top.i < Len(Top.candidates)
    /\ LET c == Top.candidates[Top.i + 1]
       IN /\ RLt(c.cost, Top.best_sub_cost)
          /\ arg' = [inv |-> NewInv(Top.inv, Top.active, c.tmpl, c.num_batches),
                     depth |-> Top.depth + 1]
    /\ pc' = "call"
    /\ UNCHANGED <<streams, cfg, all_templates, memo, stats, stack, ret, result>>
    /\ UNCHANGED gvars
    /\ UNCHANGED hvars
    /\ UNCHANGED rvars

\* Lines 265-267 and 301-307: PRUNE 2 breaks the loop; the node is cached and
\* returns.
PruneBreak ==
    /\ pc = "loop"
    /\ Top.i < Len(Top.candidates)
    /\ ~RLt(Top.candidates[Top.i + 1].cost, Top.best_sub_cost)
    /\ stats' = [stats EXCEPT !.pruned_bound = @ + Len(Top.candidates) - Top.i]
    /\ memo' = MemoPut(memo, Top.memo_key, Stored(Top))
    /\ ret' = Stored(Top)
    /\ stack' = Pop
    /\ pc' = "ret"
    /\ UNCHANGED <<streams, cfg, all_templates, arg, result>>
    /\ UNCHANGED gvars
    /\ UNCHANGED hvars
    /\ UNCHANGED rvars

\* Lines 301-307 after the loop ran out of candidates.
LoopEnd ==
    /\ pc = "loop"
    /\ Top.i >= Len(Top.candidates)
    /\ memo' = MemoPut(memo, Top.memo_key, Stored(Top))
    /\ ret' = Stored(Top)
    /\ stack' = Pop
    /\ pc' = "ret"
    /\ UNCHANGED <<streams, cfg, all_templates, stats, arg, result>>
    /\ UNCHANGED gvars
    /\ UNCHANGED hvars
    /\ UNCHANGED rvars

\* Lines 275-299: the recursive call returned into the loop of its parent.
Resume ==
    /\ pc = "ret"
    /\ stack # <<>>
    /\ LET f == Top
           c == f.candidates[f.i + 1]
           total_from_here == Fl(RAdd(c.cost, ret.sub_cost))
           better == RLt(total_from_here, f.best_sub_cost)
           g == IF better
                THEN [f EXCEPT !.best_sub_cost = total_from_here,
                               !.best_found = TRUE,
                               !.best_phases =
                                   <<PhaseOf(c.tmpl, c.num_batches)>> \o ret.phases,
                               !.i = @ + 1]
                ELSE [f EXCEPT !.i = @ + 1]
       IN stack' = [stack EXCEPT ![Len(stack)] = g]
    /\ pc' = "loop"
    /\ UNCHANGED <<streams, cfg, all_templates, memo, stats, arg, ret, result>>
    /\ UNCHANGED gvars
    /\ UNCHANGED hvars
    /\ UNCHANGED rvars

\* Lines 326-334.
ScheduleOf(best_cost, best_phases) ==
    IF IsInf(best_cost) THEN [is_none |-> TRUE]
    ELSE [is_none |-> FALSE,
          phases |-> best_phases,
          total_cost |-> best_cost,
          total_runtime_min |->
              LET RECURSIVE Total(_)
                  Total(ps) == IF ps = <<>> THEN Zero
                               ELSE RAdd(Head(ps).runtime_min, Total(Tail(ps)))
              IN Total(best_phases)]

\* Lines 309-311 and build_optimized_schedule: the root call returned.
Finish ==
    /\ pc = "ret"
    /\ stack = <<>>
    /\ result' = [best_cost |-> ret.sub_cost, best_phases |-> ret.phases,
                  schedule |-> ScheduleOf(ret.sub_cost, ret.phases)]
    /\ pc' = "done"
    /\ UNCHANGED <<streams, cfg, all_templates, memo, stats, stack, arg, ret>>
    /\ UNCHANGED gvars
    /\ UNCHANGED hvars
    /\ UNCHANGED rvars

Next == Begin \/ Enter \/ Recurse \/ PruneBreak \/ LoopEnd \/ Resume \/ Finish

Spec == Init /\ [][Next]_vars

\* ------------------------------------------------ several runs in a row
\* The caller starts the next search() of its plan once the last one returned
\* (as test_optimized_beats_solo does for the mix and then each stream alone).
\* The locals of the call that returned are out of reach; the next call
\* creates its own in Begin.
NextRun ==
    /\ pc = "done"
    /\ plan # <<>>
    /\ history' = Append(history, [streams |-> streams, cfg |-> cfg,
                                   result |-> result, stats |-> stats])
    /\ streams' = Head(plan).streams
    /\ cfg' \in Head(plan).cfgs
    /\ plan' = Tail(plan)
    /\ pc' = "start"
    /\ all_templates' = <<>>
    /\ stats' = NoStats
    /\ stack' = <<>>
    /\ arg' = NoArg
    /\ ret' = NoRet
    /\ result' = NoResult
    /\ UNCHANGED <<memo, mantissa>>
    /\ UNCHANGED rvars
    /\ UNCHANGED gvars

NextRuns == Next \/ NextRun

Fresh ==
    /\ GenIdle
    /\ RunIdle
    /\ pc = "start"
    /\ all_templates = <<>>
    /\ memo = <<>>
    /\ stats = NoStats
    /\ stack = <<>>
    /\ arg = NoArg
    /\ ret = NoRet
    /\ result = NoResult
    /\ history = <<>>
    /\ mantissa = 0

Only(sid) == [x \in {sid} |-> streams[x]]

\* search([a, b]), then search([a]) and search([b]), under one config.
InitSolo ==
    /\ Fresh
    /\ \E qty \in StreamSets :
          /\ Cardinality(DOMAIN qty) = 2
          /\ streams = WasteStreams(qty)
    /\ cfg = BaseConfig
    /\ plan = LET ids == SelectSeq(IdOrder, LAMBDA sid : sid \in DOMAIN streams)
              IN [i \in 1..2 |-> [streams |-> Only(ids[i]), cfgs |-> {BaseConfig}]]

SpecSolo == InitSolo /\ [][NextRuns]_vars

\* search() on two streams under the shipped ratio_sum_max, where a pair has
\* more feasible ratio vectors than the quota keeps.
InitQuota ==
    /\ Fresh
    /\ \E qty \in StreamSets :
          /\ Cardinality(DOMAIN qty) = 2
          /\ streams = WasteStreams(qty)
    /\ cfg = [BaseConfig EXCEPT !.ratio_sum_max = DefaultRatioSumMax]
    /\ plan = <<>>

SpecQuota == InitQuota /\ [][Next]_vars

\* Whole-liter quantities that are floats of MantissaBits bits and large
\* enough for one unit in the last place to exceed the 0.5 L threshold.
FloatQuantities == {FromInt(13), FromInt(26), FromInt(28), FromInt(52)}

\* search() on two catalog streams under the shipped ratio_sum_max, computed
\* in floats of MantissaBits bits.
InitFloat ==
    /\ GenIdle
    /\ RunIdle
    /\ pc = "start"
    /\ mantissa = MantissaBits
    /\ \E ids \in SUBSET StreamIds :
          /\ Cardinality(ids) = 2
          /\ \E qty \in [ids -> FloatQuantities] : streams = WasteStreams(qty)
    /\ cfg = [BaseConfig EXCEPT !.ratio_sum_max = DefaultRatioSumMax]
    /\ all_templates = <<>>
    /\ memo = <<>>
    /\ stats = NoStats
    /\ stack = <<>>
    /\ arg = NoArg
    /\ ret = NoRet
    /\ result = NoResult
    /\ plan = <<>>
    /\ history = <<>>

SpecFloat == InitFloat /\ [][Next]_vars

\* Quantities up to 4 L, where one stream can hold several times another.
WideQuantities == {One, Rat(3, 2), FromInt(4)}

\* search() on the three catalog streams with quantities up to 4 L.
InitWide ==
    /\ Fresh
    /\ \E qty \in [StreamIds -> WideQuantities] : streams = WasteStreams(qty)
    /\ cfg = BaseConfig
    /\ plan = <<>>

SpecWide == InitWide /\ [][Next]_vars

CostCoefficients ==
    {"cost_diesel_per_L", "cost_naoh_per_L", "cost_water_per_L",
     "cost_electricity_per_kWh", "cost_labor_per_hr"}

\* The config with one unit cost raised by 1.
Raised(c, coef) == [c EXCEPT ![coef] = RAdd(@, One)]

\* search(S, cfg), then another call (the same streams under a raised labor
\* cost, or the first stream alone), then search(S, cfg) again.
InitRepeat ==
    /\ Fresh
    /\ \E qty \in StreamSets :
          /\ Cardinality(DOMAIN qty) = 2
          /\ streams = WasteStreams(qty)
    /\ cfg = BaseConfig
    /\ \E between \in
            {[streams |-> streams,
              cfgs |-> {Raised(BaseConfig, "cost_labor_per_hr")}],
             [streams |-> Only(Head(SelectSeq(IdOrder,
                                              LAMBDA sid : sid \in DOMAIN streams))),
              cfgs |-> {BaseConfig}]} :
          plan = <<between, [streams |-> streams, cfgs |-> {BaseConfig}]>>

SpecRepeat == InitRepeat /\ [][NextRuns]_vars

\* search(streams, cfg), then search(streams, cfg') with one unit cost raised.
InitRaise ==
    /\ Fresh
    /\ \E qty \in StreamSets : streams = WasteStreams(qty)
    /\ cfg = BaseConfig
    /\ plan = <<[streams |-> streams,
                 cfgs |-> {Raised(BaseConfig, coef) : coef \in CostCoefficients}]>>

SpecRaise == InitRaise /\ [][NextRuns]_vars

\* ------------------------------------------------------- run_optimization
\* Variant of the per-stream checks that rejects a negative quantity only.
StreamRejectedBelowZero(s, ids) ==
    \/ s.kind # "WasteStream"
    \/ s.stream_id \in ids
    \/ RLt(s.quantity_L, Zero)
    \/ RLt(s.btu_per_lb, Zero)
    \/ ~(0 <= s.pH /\ s.pH <= 14)
    \/ RLt(s.f_ppm, Zero)
    \/ ~(RLe(Zero, s.solid_pct) /\ RLe(s.solid_pct, FromInt(100)))
    \/ RLt(s.salt_ppm, Zero)

\* __init__.py lines 79-96: the body of the loop raises.
StreamRejected(s, ids) ==
    \/ s.kind # "WasteStream"
    \/ s.stream_id \in ids
    \/ RLe(s.quantity_L, Zero)
    \/ RLt(s.btu_per_lb, Zero)
    \/ ~(0 <= s.pH /\ s.pH <= 14)
    \/ RLt(s.f_ppm, Zero)
    \/ ~(RLe(Zero, s.solid_pct) /\ RLe(s.solid_pct, FromInt(100)))
    \/ RLt(s.salt_ppm, Zero)

\* Lines 72-77 of _validate_streams.
ValidateStart ==
    /\ r_pc = "validate"
    /\ IF r_streams = <<>> \/ Len(r_streams) > MaxStreams
       THEN r_pc' = "raised" /\ UNCHANGED <<r_i, r_ids>>
       ELSE r_pc' = "loop" /\ r_i' = 1 /\ r_ids' = {}
    /\ UNCHANGED <<r_streams, r_calls>>
    /\ UNCHANGED gvars
    /\ UNCHANGED svars
    /\ UNCHANGED hvars

\* Lines 78-96: one iteration of the loop over streams.
ValidateStream ==
    /\ r_pc = "loop"
    /\ LET s == r_streams[r_i] IN
       IF StreamRejected(s, r_ids)
       THEN r_pc' = "raised" /\ UNCHANGED <<r_i, r_ids>>
       ELSE /\ r_ids' = r_ids \cup {s.stream_id}
            /\ r_i' = r_i + 1
            /\ r_pc' = IF r_i = Len(r_streams) THEN "baseline" ELSE "loop"
    /\ UNCHANGED <<r_streams, r_calls>>
    /\ UNCHANGED gvars
    /\ UNCHANGED svars
    /\ UNCHANGED hvars

\* Line 49.
RunBaseline ==
    /\ r_pc = "baseline"
    /\ r_calls' = Append(r_calls, "calc_baseline")
    /\ r_pc' = "search"
    /\ UNCHANGED <<r_streams, r_i, r_ids>>
    /\ UNCHANGED gvars
    /\ UNCHANGED svars
    /\ UNCHANGED hvars

\* streams_map of the validated list.
StreamsMap(list) ==
    [sid \in {list[i].stream_id : i \in 1..Len(list)} |->
        LET s == list[CHOOSE i \in 1..Len(list) : list[i].stream_id = sid]
        IN [quantity_L |-> s.quantity_L, btu_per_lb |-> s.btu_per_lb, pH |-> s.pH,
            f_ppm |-> s.f_ppm, solid_pct |-> s.solid_pct, salt_ppm |-> s.salt_ppm]]

\* Line 52: build_optimized_schedule(streams, cfg) is called; the search
\* actions run it.
RunSearch ==
    /\ r_pc = "search"
    /\ pc = "idle"
    /\ r_calls' = Append(r_calls, "build_optimized_schedule")
    /\ streams' = StreamsMap(r_streams)
    /\ pc' = "start"
    /\ r_pc' = "searching"
    /\ UNCHANGED <<cfg, all_templates, memo, stats, stack, arg, ret, result>>
    /\ UNCHANGED <<r_streams, r_i, r_ids>>
    /\ UNCHANGED gvars
    /\ UNCHANGED hvars

\* Lines 55-67: the search returned; the report is printed when verbose.
RunReport ==
    /\ r_pc = "searching"
    /\ pc = "done"
    /\ \E verbose \in BOOLEAN :
          r_calls' = IF verbose THEN Append(r_calls, "full_report") ELSE r_calls
    /\ r_pc' = "returned"
    /\ UNCHANGED <<r_streams, r_i, r_ids>>
    /\ UNCHANGED gvars
    /\ UNCHANGED svars
    /\ UNCHANGED hvars

\* A WasteStream of the catalog.
Stream(sid, qty) ==
    [kind |-> "WasteStream", stream_id |-> sid, quantity_L |-> qty,
     btu_per_lb |-> Catalog[sid].btu_per_lb, pH |-> Catalog[sid].pH,
     f_ppm |-> Catalog[sid].f_ppm, solid_pct |-> Catalog[sid].solid_pct,
     salt_ppm |-> Catalog[sid].salt_ppm]

MinusOne == FromInt(0 - 1)

\* Streams with one attribute out of range.
OutOfRange ==
    LET s == Stream("B", One)
    IN {[s EXCEPT !.quantity_L = Zero], [s EXCEPT !.quantity_L = MinusOne],
        [s EXCEPT !.btu_per_lb = MinusOne],
        [s EXCEPT !.pH = 0 - 1], [s EXCEPT !.pH = 15],
        [s EXCEPT !.f_ppm = MinusOne],
        [s EXCEPT !.solid_pct = MinusOne], [s EXCEPT !.solid_pct = FromInt(101)],
        [s EXCEPT !.salt_ppm = MinusOne]}

\* The members a list is made of: good streams A and B, streams with one
\* attribute out of range, and an object that is no WasteStream.
Items ==
    {Stream(sid, qty) : sid \in {"A", "B"}, qty \in {One, FromInt(2)}}
    \cup OutOfRange
    \cup {[Stream("B", One) EXCEPT !.kind = "dict"]}

\* A list of MaxStreams + 1 good streams with distinct ids.
TooMany ==
    LET ids == <<"A", "B", "C", "D", "E", "F", "G", "H">>
    IN [i \in 1..(MaxStreams + 1) |-> [Stream("A", One) EXCEPT !.stream_id = ids[i]]]

\* The lists run_optimization is called with: empty, one or two members, and
\* one stream too many.
InputLists ==
    {<<>>} \cup [1..1 -> Items] \cup [1..2 -> Items] \cup {TooMany}

InitRun ==
    /\ GenIdle
    /\ SearchIdle
    /\ r_pc = "validate"
    /\ r_streams \in InputLists
    /\ r_i = 0
    /\ r_ids = {}
    /\ r_calls = <<>>

NextPipeline ==
    ValidateStart \/ ValidateStream \/ RunBaseline \/ RunSearch \/ Next \/ RunReport

SpecRun == InitRun /\ [][NextPipeline]_vars

\* ------------------------------------------------- legacy package (src/*.py)
\* src/gatekeeper.py, calc_r_water with its cross-dilution branches.
legacy_calc_r_water(blend, config) ==
    LET r_solid == RMax(Zero, RSub(RDiv(blend.solid_pct, config.solid_max_pct), One))
        r_salt  == RMax(Zero, RSub(RDiv(blend.salt_ppm, config.salt_max_ppm), One))
        salt_after == RDiv(blend.salt_ppm, RAdd(One, r_solid))
        solid_after == RDiv(blend.solid_pct, RAdd(One, r_salt))
    IN IF r_solid = Zero /\ r_salt = Zero THEN Zero
       ELSE IF RLe(r_salt, r_solid)
       THEN IF RLe(salt_after, config.salt_max_ppm) THEN r_solid
            ELSE RSub(RDiv(blend.salt_ppm, config.salt_max_ppm), One)
       ELSE IF RLe(solid_after, config.solid_max_pct) THEN r_salt
            ELSE RSub(RDiv(blend.solid_pct, config.solid_max_pct), One)

\* src/gatekeeper.py, calc_r_water where it is run on its own: the same lines
\* 24-44, each operation rounding as a float operation does.
legacy_calc_r_water_fl(blend, config) ==
    LET r_solid == RMax(Zero, Fl(RSub(Fl(RDiv(blend.solid_pct, config.solid_max_pct)), One)))
        r_salt  == RMax(Zero, Fl(RSub(Fl(RDiv(blend.salt_ppm, config.salt_max_ppm)), One)))
        salt_after == Fl(RDiv(blend.salt_ppm, Fl(RAdd(One, r_solid))))
        solid_after == Fl(RDiv(blend.solid_pct, Fl(RAdd(One, r_salt))))
    IN IF r_solid = Zero /\ r_salt = Zero THEN Zero
       ELSE IF RLe(r_salt, r_solid)
       THEN IF RLe(salt_after, config.salt_max_ppm) THEN r_solid
            ELSE Fl(RSub(Fl(RDiv(blend.salt_ppm, config.salt_max_ppm)), One))
       ELSE IF RLe(solid_after, config.solid_max_pct) THEN r_salt
            ELSE Fl(RSub(Fl(RDiv(blend.solid_pct, config.solid_max_pct)), One))

\* src/gatekeeper.py, gatekeeper.
legacy_gatekeeper(blend, config) ==
    LET r_water == legacy_calc_r_water(blend, config)
    IN [r_water  |-> r_water,
        r_diesel |-> calc_r_diesel(blend, r_water, config),
        r_naoh   |-> calc_r_naoh(blend, config)]

\* src/gatekeeper.py lines 149-154: the gatekeeper rates and W of a blend, and
\* None (feasible = FALSE) when W < W_min. There is no pH_max check here.
legacy_rate(subset, ratios, blend, config) ==
    rate_blend(subset, ratios, blend, legacy_gatekeeper(blend, config), config)

\* src/gatekeeper.py lines 156-175: the PhaseResult of a feasible blend, from
\* Q_phase = sum(r * num_batches for r in ratios), runtime_min = Q_phase / W
\* and calc_phase_cost.
legacy_phase(rated, num_batches) ==
    IF rated.feasible
    THEN [feasible |-> TRUE, phase |-> PhaseOf(rated.tmpl, num_batches)]
    ELSE [feasible |-> FALSE]

\* src/gatekeeper.py, evaluate_phase.
evaluate_phase(subset, ratios, inventory, streams_map, config) ==
    legacy_phase(
        legacy_rate(subset, ratios,
                    calc_blend_properties(
                        [i \in 1..Len(subset) |-> streams_map[subset[i]]], ratios),
                    config),
        MinBatches(inventory, subset, ratios))

\* src/search.py line 67: active = {sid: qty for sid, qty in inv.items() if qty > 0}.
LegacyActiveOf(inv) ==
    LET ids == {sid \in DOMAIN inv : RLt(Zero, inv[sid])}
    IN [sid \in ids |-> inv[sid]]

\* src/search.py lines 78-80: round(qty, 2), as a count of hundredths.
LegacyMemoKey(active) ==
    {<<sid, round(RMul(active[sid], FromInt(100)))>> : sid \in DOMAIN active}

\* src/search.py lines 92-106: the (subset, ratios) pairs of a node in the order
\* of the three nested loops, each with what evaluate_phase returns for it
\* (evaluate_phase reads the node's active inventory only).
LegacyOptions(active, streams_map, config) ==
    LET active_ids == SelectSeq(IdOrder, LAMBDA sid : sid \in DOMAIN active)
        subsets == Concat([size \in 1..Len(active_ids) |->
                               combinations(active_ids, size)])
        of(subset) ==
            LET ratios_list == generate_ratios(Len(subset), config.ratio_sum_max)
            IN [j \in 1..Len(ratios_list) |->
                   [subset |-> subset, ratios |-> ratios_list[j],
                    eval |-> evaluate_phase(subset, ratios_list[j], active,
                                            streams_map, config)]]
    IN Concat([i \in 1..Len(subsets) |-> of(subsets[i])])

LegacyNoStats ==
    [evaluated |-> 0, pruned_infeasible |-> 0, pruned_bound |-> 0, memo_hits |-> 0]

\* src/search.py lines 36-50 and the root call of line 149.
LegacyBegin ==
    /\ pc = "start"
    /\ memo' = <<>>
    /\ stats' = LegacyNoStats
    /\ stack' = <<>>
    /\ arg' = [inv |-> [sid \in DOMAIN streams |-> streams[sid].quantity_L],
               cost_so_far |-> Zero, best_cost |-> Inf, depth |-> 0]
    /\ pc' = "call"
    /\ UNCHANGED <<streams, cfg, all_templates, ret, result>>
    /\ UNCHANGED gvars
    /\ UNCHANGED hvars
    /\ UNCHANGED rvars

\* src/search.py lines 67-89: the terminal return, the depth bound, the memo
\* hit, or the start of the loops.
LegacyEnter ==
    /\ pc = "call"
    /\ LET active == LegacyActiveOf(arg.inv)
           memo_key == LegacyMemoKey(active)
       IN IF DOMAIN active = {}
          THEN /\ ret' = [total |-> arg.cost_so_far, phases |-> <<>>]
               /\ pc' = "ret"
               /\ UNCHANGED <<stats, stack>>
          ELSE IF arg.depth > N
          THEN /\ ret' = [total |-> Inf, phases |-> <<>>]
               /\ pc' = "ret"
               /\ UNCHANGED <<stats, stack>>
          ELSE IF memo_key \in DOMAIN memo
          THEN /\ stats' = [stats EXCEPT !.memo_hits = @ + 1]
               /\ ret' = [total |-> RAdd(arg.cost_so_far, memo[memo_key].sub_cost),
                          phases |-> memo[memo_key].phases]
               /\ pc' = "ret"
               /\ UNCHANGED stack
          ELSE /\ stack' = Append(stack,
                      [inv |-> arg.inv, cost_so_far |-> arg.cost_so_far,
                       best_cost |-> arg.best_cost, depth |-> arg.depth,
                       active |-> active, memo_key |-> memo_key,
                       options |-> LegacyOptions(active, streams, cfg),
                       i |-> 0, best_sub_cost |-> Inf,
                       best_found |-> FALSE, best_phases |-> <<>>])
               /\ pc' = "loop"
               /\ UNCHANGED <<stats, ret>>
    /\ UNCHANGED <<streams, cfg, all_templates, memo, arg, result>>
    /\ UNCHANGED gvars
    /\ UNCHANGED hvars
    /\ UNCHANGED rvars

\* src/search.py lines 104-106: what evaluate_phase returned in the iteration
\* the innermost loop of the top activation is at.
LegacyPhase == Top.options[Top.i + 1].eval

\* src/search.py lines 101-111, PRUNE 1: the phase is None; continue.
LegacyInfeasible ==
    /\ pc = "loop"
    /\ Top.i < Len(Top.options)
    /\ ~LegacyPhase.feasible
    /\ stats' = [stats EXCEPT !.evaluated = @ + 1, !.pruned_infeasible = @ + 1]
    /\ stack' = [stack EXCEPT ![Len(stack)].i = @ + 1]
    /\ UNCHANGED <<pc, streams, cfg, all_templates, memo, arg, ret, result>>
    /\ UNCHANGED gvars
    /\ UNCHANGED hvars
    /\ UNCHANGED rvars

\* src/search.py line 114: cost_so_far + phase.cost_total >= best_cost.
LegacyBounded(f, phase) ==
    ~RLt(RAdd(f.cost_so_far, phase.cost_total), f.best_cost)

\* src/search.py lines 113-116, PRUNE 2: continue.
LegacyPruneBound ==
    /\ pc = "loop"
    /\ Top.i < Len(Top.options)
    /\ LegacyPhase.feasible
    /\ LegacyBounded(Top, LegacyPhase.phase)
    /\ stats' = [stats EXCEPT !.evaluated = @ + 1, !.pruned_bound = @ + 1]
    /\ stack' = [stack EXCEPT ![Len(stack)].i = @ + 1]
    /\ UNCHANGED <<pc, streams, cfg, all_templates, memo, arg, ret, result>>
    /\ UNCHANGED gvars
    /\ UNCHANGED hvars
    /\ UNCHANGED rvars

\* src/search.py lines 118-125: the inventory after the phase.
LegacyNewInv(inv, active, subset, ratios) ==
    LET num_batches == MinBatches(active, subset, ratios)
        pos(sid) == CHOOSE i \in 1..Len(subset) : subset[i] = sid
    IN [sid \in DOMAIN inv |->
          IF sid \in SeqToSet(subset)
          THEN RSub(active[sid], RMul(FromInt(ratios[pos(sid)]), num_batches))
          ELSE inv[sid]]

\* src/search.py lines 118-133: the recursive call.
LegacyRecurse ==
    /\ pc = "loop"
    /\ Top.i < Len(Top.options)
    /\ LegacyPhase.feasible
    /\ ~LegacyBounded(Top, LegacyPhase.phase)
    /\ stats' = [stats EXCEPT !.evaluated = @ + 1]
    /\ LET o == Top.options[Top.i + 1]
       IN arg' = [inv |-> LegacyNewInv(Top.inv, Top.active, o.subset, o.ratios),
                  cost_so_far |-> RAdd(Top.cost_so_far, LegacyPhase.phase.cost_total),
                  best_cost |-> Top.best_cost,
                  depth |-> Top.depth + 1]
    /\ pc' = "call"
    /\ UNCHANGED <<streams, cfg, all_templates, memo, stack, ret, result>>
    /\ UNCHANGED gvars
    /\ UNCHANGED hvars
    /\ UNCHANGED rvars

\* src/search.py lines 135-138: the recursive call returned into the loops.
LegacyResume ==
    /\ pc = "ret"
    /\ stack # <<>>
    /\ LET f == Top
           g == IF RLt(ret.total, f.best_cost)
                THEN [f EXCEPT !.best_cost = ret.total,
                               !.best_sub_cost = RSub(ret.total, f.cost_so_far),
                               !.best_found = TRUE,
                               !.best_phases = <<LegacyPhase.phase>> \o ret.phases,
                               !.i = @ + 1]
                ELSE [f EXCEPT !.i = @ + 1]
       IN stack' = [stack EXCEPT ![Len(stack)] = g]
    /\ pc' = "loop"
    /\ UNCHANGED <<streams, cfg, all_templates, memo, stats, arg, ret, result>>
    /\ UNCHANGED gvars
    /\ UNCHANGED hvars
    /\ UNCHANGED rvars

\* src/search.py lines 140-147: what the node caches.
LegacyStored(f) ==
    IF f.best_found
    THEN [sub_cost |-> f.best_sub_cost, phases |-> f.best_phases]
    ELSE [sub_cost |-> Inf, phases |-> <<>>]

\* src/search.py lines 140-147: the loops ran out; cache and return.
LegacyLoopEnd ==
    /\ pc = "loop"
    /\ Top.i >= Len(Top.options)
    /\ memo' = MemoPut(memo, Top.memo_key, LegacyStored(Top))
    /\ ret' = [total |-> IF Top.best_found
                         THEN RAdd(Top.cost_so_far, Top.best_sub_cost) ELSE Inf,
               phases |-> Top.best_phases]
    /\ stack' = Pop
    /\ pc' = "ret"
    /\ UNCHANGED <<streams, cfg, all_templates, stats, arg, result>>
    /\ UNCHANGED gvars
    /\ UNCHANGED hvars
    /\ UNCHANGED rvars

\* src/search.py lines 149-174: the root call returned.
LegacyFinish ==
    /\ pc = "ret"
    /\ stack = <<>>
    /\ result' = [best_cost |-> ret.total, best_phases |-> ret.phases,
                  schedule |-> ScheduleOf(ret.total, ret.phases)]
    /\ pc' = "done"
    /\ UNCHANGED <<streams, cfg, all_templates, memo, stats, stack, arg, ret>>
    /\ UNCHANGED gvars
    /\ UNCHANGED hvars
    /\ UNCHANGED rvars

LegacyNext ==
    \/ LegacyBegin \/ LegacyEnter \/ LegacyInfeasible \/ LegacyPruneBound
    \/ LegacyRecurse \/ LegacyResume \/ LegacyLoopEnd \/ LegacyFinish

\* Inputs of the legacy runs: one to three catalog streams of half a litre or a
\* litre each, blends of up to RatioSumMax + 1 parts, and the two values of
\* W_min (under the second, stream B cannot be fed alone).
LegacyConfigs ==
    {[BaseConfig EXCEPT !.ratio_sum_max = RatioSumMax + 1, !.W_min = w] :
        w \in {Half, Rat(5, 2)}}

InitLegacy ==
    /\ GenIdle
    /\ RunIdle
    /\ pc = "start"
    /\ \E ids \in (SUBSET StreamIds) \ {{}} :
         \E qty \in [ids -> {Half, One}] : streams = WasteStreams(qty)
    /\ cfg \in LegacyConfigs
    /\ all_templates = <<>>
    /\ memo = <<>>
    /\ stats = NoStats
    /\ stack = <<>>
    /\ arg = NoArg
    /\ ret = NoRet
    /\ result = NoResult
    /\ plan = <<>>
    /\ history = <<>>
    /\ mantissa = 0

SpecLegacy == InitLegacy /\ [][LegacyNext]_vars

\* ------------------------------------- calc_r_water, v9 and legacy, on its own
\* solid_pct and salt_ppm of the blends, and the maxima of the configs: whole
\* numbers that floats of MantissaBits bits hold exactly (the formula only
\* depends on the quotients, so salt is on the same small scale as solid).
WaterLevels == {FromInt(k) : k \in {0, 3, 6, 7, 10, 13, 15, 16, 20, 26, 30}}
WaterMaxima == {FromInt(k) : k \in {3, 6, 7, 15}}

\* One blend and one config; calc_r_water of v9 is called on them, then the
\* legacy calc_r_water, in exact arithmetic or in floats.
InitWater ==
    /\ GenIdle
    /\ RunIdle
    /\ pc = "water_v9"
    /\ mantissa \in {0, MantissaBits}
    /\ streams = <<>>
    /\ \E solid_max \in WaterMaxima, salt_max \in WaterMaxima :
          cfg = [BaseConfig EXCEPT !.solid_max_pct = solid_max,
                                   !.salt_max_ppm = salt_max]
    /\ \E solid \in WaterLevels, salt \in WaterLevels :
          arg = [btu_per_lb |-> FromInt(22), pH |-> 7, f_ppm |-> Zero,
                 solid_pct |-> solid, salt_ppm |-> salt]
    /\ all_templates = <<>>
    /\ memo = <<>>
    /\ stats = NoStats
    /\ stack = <<>>
    /\ ret = <<>>
    /\ result = NoResult
    /\ plan = <<>>
    /\ history = <<>>

\* smart_feed_v9.gatekeeper.calc_r_water(blend, cfg).
WaterV9 ==
    /\ pc = "water_v9"
    /\ ret' = [v9 |-> calc_r_water_fl(arg, cfg)]
    /\ pc' = "water_legacy"
    /\ UNCHANGED <<streams, cfg, all_templates, memo, stats, stack, arg, result>>
    /\ UNCHANGED gvars
    /\ UNCHANGED hvars
    /\ UNCHANGED rvars

\* src/gatekeeper.py calc_r_water(blend, cfg), on the same blend and config.
WaterLegacy ==
    /\ pc = "water_legacy"
    /\ ret' = [v9 |-> ret.v9, legacy |-> legacy_calc_r_water_fl(arg, cfg)]
    /\ pc' = "water_done"
    /\ UNCHANGED <<streams, cfg, all_templates, memo, stats, stack, arg, result>>
    /\ UNCHANGED gvars
    /\ UNCHANGED hvars
    /\ UNCHANGED rvars

WaterNext == WaterV9 \/ WaterLegacy

SpecWater == InitWater /\ [][WaterNext]_vars

\* ------------------------------------------------------------------ claims
Inventory == [sid \in DOMAIN streams |-> streams[sid].quantity_L]

\* The least total cost over all phase sequences that start from inv, use in
\* each phase a retained template whose streams are all active, draw
\* min(remaining / ratio) batches and end with every stream at or below the
\* threshold; Inf when there is no such sequence.
RECURSIVE MinCost(_)
MinCost(inv) ==
    LET active == ActiveOf(inv)
        cands == Candidates(active)
        RECURSIVE Best(_)
        Best(i) ==
            IF i > Len(cands) THEN Inf
            ELSE RMin(RAdd(cands[i].cost,
                           MinCost(NewInv(inv, active, cands[i].tmpl,
                                          cands[i].num_batches))),
                      Best(i + 1))
    IN IF DOMAIN active = {} THEN Zero ELSE Best(1)

RECURSIVE SumCostTotal(_)
SumCostTotal(phases) ==
    IF phases = <<>> THEN Zero
    ELSE RAdd(Head(phases).cost_total, SumCostTotal(Tail(phases)))

SumRatios(phase) ==
    LET ids == DOMAIN phase.streams
        RECURSIVE Sum(_)
        Sum(S) == IF S = {} THEN 0
                  ELSE LET x == CHOOSE x \in S : TRUE
                       IN phase.streams[x] + Sum(S \ {x})
    IN Sum(ids)

\* What the phases draw from stream sid: ratio x Q_phase / sum(ratios), summed.
RECURSIVE Consumed(_, _)
Consumed(sid, phases) ==
    IF phases = <<>> THEN Zero
    ELSE RAdd(IF sid \in DOMAIN Head(phases).streams
              THEN RDiv(RMul(FromInt(Head(phases).streams[sid]), Head(phases).Q_phase),
                        FromInt(SumRatios(Head(phases))))
              ELSE Zero,
              Consumed(sid, Tail(phases)))

RAbs(a) == [n |-> Abs(a.n), d |-> a.d]
Finite(a) == ~IsInf(a)

\* C1: the cost search() returns is the least cost of any phase sequence over
\* retained templates that depletes every stream (Inf when there is none).
C1_ReturnsMinimum ==
    pc = "done" => result.best_cost = MinCost(Inventory)

\* C2: when search() returns a finite cost, the returned phases draw from each
\* stream its initial quantity up to at most 0.5 L.
C2_ConsumesWithinEpsilon ==
    (pc = "done" /\ Finite(result.best_cost)) =>
        \A sid \in DOMAIN streams :
            RLe(RAbs(RSub(Consumed(sid, result.best_phases),
                          streams[sid].quantity_L)), _ACTIVE_THRESHOLD_L)

SingleInfeasible ==
    /\ N = 1
    /\ \A sid \in DOMAIN streams :
          LET ratios_list == generate_ratios(1, cfg.ratio_sum_max)
          IN \A i \in 1..Len(ratios_list) :
                ~evaluate_template(<<sid>>, ratios_list[i], streams, cfg).feasible

NoSchedule ==
    /\ IsInf(result.best_cost)
    /\ result.best_phases = <<>>
    /\ result.schedule.is_none

C5_BlendNoWorseThanSolo ==
    (pc = "done" /\ Len(history) = 2 /\ Finite(history[2].result.best_cost)
                 /\ Finite(result.best_cost)) =>
        RLe(history[1].result.best_cost,
            RAdd(history[2].result.best_cost, result.best_cost))

C5_Witness ==
    /\ pc = "done" /\ Len(history) = 2
    /\ Finite(history[2].result.best_cost) /\ Finite(result.best_cost)
    /\ history[1].stats.memo_hits > 0
    /\ RLt(history[1].result.best_cost,
           RAdd(history[2].result.best_cost, result.best_cost))

\* C6: raising one unit cost of the config, everything else unchanged, never
\* lowers the cost search() returns for the same streams.
C6_RaisedCostNeverCheaper ==
    (pc = "done" /\ Len(history) = 1) =>
        RLe(history[1].result.best_cost, result.best_cost)

\* C9: every vector of generate_ratios(n, maxSum) has length n, components of
\* at least 1, a sum of at most maxSum and gcd 1.
C9_RatioVectors ==
    \A i \in 1..Len(g_results) :
        LET v == g_results[i]
        IN /\ Len(v) = g_n
           /\ \A k \in 1..Len(v) : v[k] \in Nat /\ v[k] >= 1
           /\ SumSeq(v) <= g_max
           /\ GcdSeq(v) = 1

C9_Witness ==
    /\ g_pc = "done" /\ g_n >= 3 /\ g_max >= g_n + 2 /\ Len(g_results) >= 5

BothOrders ==
    \E i, j \in 1..Len(g_results) :
        i # j /\ g_results[i] = <<1, 2>> /\ g_results[j] = <<2, 1>>

\* C10 (as the code has it): for maxSum >= 3, generate_ratios(2, maxSum) holds
\* (1,2) and (2,1) as two entries.
C10_BothOrdersFromThree ==
    (g_pc = "done" /\ g_n = 2 /\ g_max >= 3) => BothOrders

\* C10 as stated: the same for every maxSum >= 2.
C10_BothOrdersFromTwo ==
    (g_pc = "done" /\ g_n = 2 /\ g_max >= 2) => BothOrders

C10_Witness ==
    g_pc = "done" /\ g_n = 2 /\ g_max = 3 /\ BothOrders

\* The inventory a phase leaves behind.
After(inv, phase) ==
    [sid \in DOMAIN inv |->
        IF sid \in DOMAIN phase.streams
        THEN RSub(inv[sid], RDiv(RMul(FromInt(phase.streams[sid]), phase.Q_phase),
                                 FromInt(SumRatios(phase))))
        ELSE inv[sid]]

\* Every phase of the sequence draws only on streams that, after the phases
\* before it, still hold more than 0.5 L.
RECURSIVE OnlyActiveDrawn(_, _)
OnlyActiveDrawn(inv, phases) ==
    \/ phases = <<>>
    \/ /\ \A sid \in DOMAIN Head(phases).streams : RLt(_ACTIVE_THRESHOLD_L, inv[sid])
       /\ OnlyActiveDrawn(After(inv, Head(phases)), Tail(phases))

RetainedFor(ids) ==
    UNION {SeqToSet(all_templates[i].kept) :
             i \in {j \in 1..Len(all_templates) : all_templates[j].key \subseteq ids}}

\* In an expanded node exactly the streams above 0.5 L are active, the memo
\* key names exactly them, every candidate draws on active streams only and
\* there is a candidate for every retained template over active streams.
NodeBoundary(f) ==
    /\ DOMAIN f.active = {sid \in DOMAIN f.inv : RLt(_ACTIVE_THRESHOLD_L, f.inv[sid])}
    /\ {kv[1] : kv \in f.memo_key} = DOMAIN f.active
    /\ \A i \in 1..Len(f.candidates) :
          SeqToSet(f.candidates[i].tmpl.stream_ids) \subseteq DOMAIN f.active
    /\ {f.candidates[i].tmpl : i \in 1..Len(f.candidates)} = RetainedFor(DOMAIN f.active)

\* C8: in every expanded node, and in every phase sequence a _search call
\* returns or caches, a stream at or below 0.5 L takes part in no later phase,
\* a stream above 0.5 L is active, and every retained template over active
\* streams has its candidate.
C8_DepletionBoundary ==
    /\ [](\A j \in 1..Len(stack) :
            /\ NodeBoundary(stack[j])
            /\ OnlyActiveDrawn(stack[j].inv, stack[j].best_phases))
    /\ [](pc = "done" => OnlyActiveDrawn(Inventory, result.best_phases))
    /\ [][/\ (pc = "call" /\ pc' = "ret") => OnlyActiveDrawn(arg.inv, ret'.phases)
          /\ (pc = "loop" /\ pc' = "ret") => OnlyActiveDrawn(Top.inv, ret'.phases)]_vars

\* Every n-tuple of positive integers with sum <= max_sum and gcd 1.
ValidTuples(n, max_sum) ==
    {t \in [1..n -> 1..max_sum] : SumSeq(t) <= max_sum /\ GcdSeq(t) = 1}

\* C11: generate_ratios(n, maxSum) holds, once each, every n-tuple of positive
\* integers with sum <= maxSum and gcd 1 when n > 1, and is [(1,)] when n = 1.
C11_CompleteNoDuplicates ==
    g_pc = "done" =>
        IF g_n = 1 THEN g_results = << <<1>> >>
        ELSE /\ SeqToSet(g_results) = ValidTuples(g_n, g_max)
             /\ Cardinality(SeqToSet(g_results)) = Len(g_results)

C11_Witness ==
    /\ g_pc = "done" /\ g_n >= 3 /\ g_max >= g_n + 2
    /\ \E i \in 1..Len(g_results) : g_results[i][1] = g_max - g_n + 1
    /\ SeqToSet(g_results) = ValidTuples(g_n, g_max)

\* Every template of the subset that passes Prune 1a and 1b, retained or not.
FeasibleTemplates(key) ==
    LET subset == SelectSeq(IdOrder, LAMBDA sid : sid \in key)
        ratios_list == generate_ratios(Len(subset), cfg.ratio_sum_max)
        evals == [i \in 1..Len(ratios_list) |->
                      evaluate_template(subset, ratios_list[i], streams, cfg)]
    IN {evals[i].tmpl : i \in {j \in 1..Len(ratios_list) : evals[j].feasible}}

TemplatesBuilt == pc = "call" /\ stack = <<>>

\* C12: every subset of the index keeps at most 30 templates, in non-decreasing
\* cost_per_batch order, and no feasible template it dropped is cheaper than
\* one it kept.
C12_QuotaKeepsCheapest ==
    TemplatesBuilt =>
        \A i \in 1..Len(all_templates) :
            LET kept == all_templates[i].kept
                feasible == FeasibleTemplates(all_templates[i].key)
            IN /\ Len(kept) <= _MAX_TEMPLATES_PER_SUBSET
               /\ \A j \in 1..(Len(kept) - 1) :
                     RLe(kept[j].cost_per_batch, kept[j + 1].cost_per_batch)
               /\ SeqToSet(kept) \subseteq feasible
               /\ Cardinality(SeqToSet(kept)) = Len(kept)
               /\ \/ Len(kept) = _MAX_TEMPLATES_PER_SUBSET
                  \/ SeqToSet(kept) = feasible
               /\ \A t \in feasible \ SeqToSet(kept) :
                     \A j \in 1..Len(kept) :
                        RLe(kept[j].cost_per_batch, t.cost_per_batch)

C12_Witness ==
    /\ TemplatesBuilt
    /\ \E i \in 1..Len(all_templates) :
          /\ Len(all_templates[i].kept) = _MAX_TEMPLATES_PER_SUBSET
          /\ Cardinality(FeasibleTemplates(all_templates[i].key))
                > _MAX_TEMPLATES_PER_SUBSET

\* C13: a _search call entered past the depth bound (depth > N) on an
\* inventory that still has an active stream does not come back with an
\* ordinary return value; the code of lines 228-229 returns (inf, []).
PastBound == pc = "call" /\ DOMAIN ActiveOf(arg.inv) # {} /\ arg.depth > N
C13_PastBoundDoesNotReturn == [][PastBound => pc' # "ret"]_vars

\* C14: a returned phase sequence has at most N phases, exactly one for a
\* single feasible stream above the threshold, and _search is not entered
\* past the depth bound on an inventory with an active stream.
C14_AtMostNPhases ==
    /\ ~PastBound
    /\ pc = "done" =>
          /\ Len(result.best_phases) <= N
          /\ (N = 1 /\ ~IsInf(result.best_cost)
                 /\ DOMAIN ActiveOf(Inventory) # {})
                => Len(result.best_phases) = 1
\* The inventory of the _search call that is about to return.
NodeInv == IF pc = "call" THEN arg.inv ELSE Top.inv

\* Some candidate of the node leaves an inventory that can be depleted.
HasDepletingCandidate(inv) ==
    LET active == ActiveOf(inv)
        cands == Candidates(active)
    IN \E i \in 1..Len(cands) :
          ~IsInf(MinCost(NewInv(inv, active, cands[i].tmpl, cands[i].num_batches)))

\* A node without candidates returns (inf, []).
DeadEndReturnsInf ==
    (pc = "loop" /\ Top.candidates = <<>>)
    => (pc' = "ret" /\ ret' = [sub_cost |-> Inf, phases |-> <<>>])

\* A child that returned inf leaves the parent's best unchanged and the
\* parent moves on to its next candidate.
InfChildNotSelected ==
    (pc = "ret" /\ stack # <<>> /\ IsInf(ret.sub_cost))
    => /\ pc' = "loop"
       /\ Len(stack') = Len(stack)
       /\ stack'[Len(stack)] = [Top EXCEPT !.i = @ + 1]

\* A node with a candidate that leads to full depletion returns a finite cost.
DepletableReturnsFinite ==
    (pc \in {"call", "loop"} /\ pc' = "ret"
       /\ DOMAIN ActiveOf(NodeInv) # {} /\ HasDepletingCandidate(NodeInv))
    => ~IsInf(ret'.sub_cost)

\* C15: a node without an applicable template returns (inf, []); a parent
\* never selects a child whose residual cost is inf and goes on with its
\* remaining candidates; a node with a candidate that leads to full
\* depletion returns a finite cost; there is no Schedule exactly when the
\* root cost is inf.
C15_InfeasibleIsAValue ==
    /\ [][DeadEndReturnsInf /\ InfChildNotSelected /\ DepletableReturnsFinite]_vars
    /\ [](pc = "done" => (result.schedule.is_none <=> IsInf(result.best_cost)))
\* C16: the root call of every run starts on an empty memo table, and a run
\* returns the same result and statistics as an earlier run of the same
\* streams and config, whatever ran in between.
C16_FreshMemoPerCall ==
    /\ (pc = "call" /\ stack = <<>>) => memo = <<>>
    /\ pc = "done" =>
          \A i \in 1..Len(history) :
             (history[i].streams = streams /\ history[i].cfg = cfg)
             => (history[i].result = result /\ history[i].stats = stats)

C16_Witness ==
    /\ pc = "done" /\ Len(history) = 2
    /\ history[1].streams = streams /\ history[1].cfg = cfg
    /\ history[2].streams = streams /\ history[2].cfg # cfg
    /\ history[2].result # result
    /\ stats.memo_hits > 0
\* The lists the claim names: empty, more than 5 streams, a duplicate
\* stream_id, a quantity_L <= 0 or an attribute out of range.
Invalid(list) ==
    \/ list = <<>>
    \/ Len(list) > 5
    \/ \E i, j \in 1..Len(list) : i # j /\ list[i].stream_id = list[j].stream_id
    \/ \E i \in 1..Len(list) :
          \/ ~RLt(Zero, list[i].quantity_L)
          \/ RLt(list[i].btu_per_lb, Zero)
          \/ RLt(list[i].f_ppm, Zero)
          \/ RLt(list[i].salt_ppm, Zero)
          \/ list[i].pH < 0 \/ list[i].pH > 14
          \/ RLt(list[i].solid_pct, Zero) \/ RLt(FromInt(100), list[i].solid_pct)

\* C17: for an invalid list run_optimization calls neither calc_baseline nor
\* the search nor the report and ends by raising; the search runs only on
\* lists that pass every check.
C17_InvalidInputRejected ==
    /\ Invalid(r_streams) =>
          /\ r_calls = <<>>
          /\ pc = "idle"
          /\ r_pc \in {"validate", "loop", "raised"}
    /\ pc # "idle" =>
          /\ ~Invalid(r_streams)
          /\ streams = StreamsMap(r_streams)
          /\ \A i \in 1..Len(r_streams) : r_streams[i].kind = "WasteStream"

C17_Witness ==
    /\ r_pc = "raised"
    /\ Len(r_streams) = 2
    /\ r_i = 2
    /\ r_streams[2].quantity_L = Zero
    /\ r_calls = <<>>

\* C18: the pair a node stores in the memo is the least cost of depleting
\* that node's inventory, whatever was expanded and cached before the node.
C18_MemoPairIsNodeMinimum ==
    [][(pc = "loop" /\ pc' = "ret")
       => /\ memo'[Top.memo_key] = ret'
          /\ memo'[Top.memo_key].sub_cost = MinCost(Top.inv)]_vars

\* The least cost of depleting inv with the phases the legacy evaluate_phase
\* accepts, over every order and every ratio.
RECURSIVE LegacyMinCost(_)
LegacyMinCost(inv) ==
    LET active == LegacyActiveOf(inv)
        options == LegacyOptions(active, streams, cfg)
        RECURSIVE Best(_)
        Best(i) ==
            IF i > Len(options) THEN Inf
            ELSE LET o == options[i]
                     e == o.eval
                 IN IF ~e.feasible THEN Best(i + 1)
                    ELSE RMin(RAdd(e.phase.cost_total,
                                   LegacyMinCost(LegacyNewInv(inv, active, o.subset,
                                                              o.ratios))),
                              Best(i + 1))
    IN IF DOMAIN active = {} THEN Zero ELSE Best(1)

\* A legacy node stores a sub-cost that is the least cost of depleting its
\* inventory, (inf, []) only when nothing depletes it.
LegacyStoresMinimum ==
    [][(pc = "loop" /\ pc' = "ret")
       => memo'[Top.memo_key].sub_cost = LegacyMinCost(Top.inv)]_vars

\* The legacy search ends with the least total cost.
LegacyReturnsMinimum ==
    pc = "done" => result.best_cost = LegacyMinCost(Inventory)

\* C19: in the legacy search the sub-cost stored for an inventory key is the
\* least cost of depleting that inventory whatever cost_so_far and best_cost
\* the storing node was called with, (inf, []) is stored only for an inventory
\* nothing depletes, and the search returns the least total cost.
C19_LegacyMemoPathIndependent ==
    LegacyStoresMinimum /\ [](LegacyReturnsMinimum)

\* The least, over all candidates of the node f, of the candidate's cost plus
\* the least cost of depleting the inventory it leaves.
NodeMinimum(f) ==
    LET RECURSIVE Best(_)
        Best(i) ==
            IF i > Len(f.candidates) THEN Inf
            ELSE LET c == f.candidates[i]
                 IN RMin(RAdd(c.cost,
                              MinCost(NewInv(f.inv, f.active, c.tmpl,
                                             c.num_batches))),
                         Best(i + 1))
    IN Best(1)

\* C20: pruning is transparent: the sub-cost a node returns is the least, over
\* all its candidates (the ones PRUNE 2 cut off included), of the candidate's
\* cost plus the optimal cost of the inventory the candidate leaves.
C20_PruningTransparent ==
    [][(pc = "loop" /\ pc' = "ret") => ret'.sub_cost = NodeMinimum(Top)]_vars

\* _search(inv, depth) as lines 218-307 compute it when the memo lookup of
\* lines 236-238 never hits: the sub_cost returned.
RECURSIVE SearchNoMemo(_, _)
SearchNoMemo(inv, depth) ==
    LET active == ActiveOf(inv)
        cands == Candidates(active)
        RECURSIVE Loop(_, _)
        Loop(i, best) ==
            IF i > Len(cands) \/ ~RLt(cands[i].cost, best) THEN best
            ELSE LET total == RAdd(cands[i].cost,
                                   SearchNoMemo(NewInv(inv, active, cands[i].tmpl,
                                                       cands[i].num_batches),
                                                depth + 1))
                 IN Loop(i + 1, IF RLt(total, best) THEN total ELSE best)
    IN IF DOMAIN active = {} THEN Zero
       ELSE IF depth > N THEN Inf
       ELSE Loop(1, Inf)

\* A memo hit returns the optimum of the inventory the node was entered with.
MemoHit == pc = "call" /\ DOMAIN ActiveOf(arg.inv) # {} /\ arg.depth <= N
           /\ MemoKey(ActiveOf(arg.inv)) \in DOMAIN memo
HitReturnsNodeOptimum ==
    [][MemoHit => ret'.sub_cost = SearchNoMemo(arg.inv, arg.depth)]_vars

\* search() returns the root cost of the same search without memo lookups.
RootAsWithoutMemo ==
    pc = "done" => result.best_cost = SearchNoMemo(Inventory, 0)

\* C21: memoization is transparent: search() returns the root cost the search
\* returns with memo lookups disabled, and every memo hit returns the optimum
\* of the inventory of the node that hit.
C21_MemoTransparent ==
    HitReturnsNodeOptimum /\ [](RootAsWithoutMemo)

\* The candidate the loop of the top activation is at.
AtCandidate == pc = "loop" /\ Top.i < Len(Top.candidates)
NextCandidate == Top.candidates[Top.i + 1]

\* Lines 265 and 275: the node recurses into the candidate it is at.
RecursesInto == AtCandidate /\ pc' = "call"

\* The top activation finishes: its loop is left and it returns.
NodeFinishes == pc = "loop" /\ pc' = "ret"

\* C22: a node recurses into its candidates in non-decreasing order of cost,
\* one after the other; it recurses into a candidate only if the candidate's
\* cost is below best_sub_cost, and at the first candidate that is not the node
\* finishes; pruned_bound grows, when a node finishes, by the number of
\* candidates the node has not recursed into, and at no other step of the
\* recursion.
C22_CheapestFirstThenBreak ==
    [][/\ RecursesInto =>
            /\ \A j \in 1..Top.i : RLe(Top.candidates[j].cost, NextCandidate.cost)
            /\ RLt(NextCandidate.cost, Top.best_sub_cost)
            /\ arg'.inv = NewInv(Top.inv, Top.active, NextCandidate.tmpl,
                                 NextCandidate.num_batches)
       /\ (AtCandidate /\ ~RLt(NextCandidate.cost, Top.best_sub_cost)) =>
            /\ NodeFinishes
            /\ stack' = Pop
       /\ (pc = "ret" /\ stack # <<>>) =>
            /\ Len(stack') = Len(stack)
            /\ stack'[Len(stack)].i = Top.i + 1
       /\ pc # "start" =>
            stats'.pruned_bound =
                stats.pruned_bound
                + (IF NodeFinishes THEN Len(Top.candidates) - Top.i ELSE 0)]_vars

\* A node that recursed into two candidates breaks at its third, with
\* candidates left, after an earlier node broke too.
C22_Witness ==
    /\ AtCandidate
    /\ Top.i >= 2
    /\ ~RLt(NextCandidate.cost, Top.best_sub_cost)
    /\ stats.pruned_bound > 0

\* The rounding error three float operations (a quotient, a product and a
\* difference, lines 250 and 272) can leave on a quantity q: 3 * 2^-p * q for
\* floats of p significant bits, nothing in exact arithmetic.
Tol(q) ==
    IF mantissa = 0 THEN Zero
    ELSE RDiv(RMul(FromInt(3), q), FromInt(pow2(mantissa)))

\* The child inventory of the candidate a node recurses into: participants
\* hold prev - ratio * num_batches with num_batches the least prev / ratio,
\* as the float operations of lines 250 and 272 compute them, and the other
\* streams hold what they held; slack(q) bounds how far below 0 a participant
\* may end and how far from 0 the nearest one.
ChildInventory(slack(_)) ==
    LET c == NextCandidate
        child == arg'.inv
        ids == SeqToSet(c.tmpl.stream_ids)
        ratio(sid) ==
            c.tmpl.ratios[CHOOSE i \in 1..Len(c.tmpl.stream_ids) :
                              c.tmpl.stream_ids[i] = sid]
        quotient(sid) == Fl(RDiv(Top.inv[sid], FromInt(ratio(sid))))
    IN /\ DOMAIN child = DOMAIN Top.inv
       /\ ids \subseteq DOMAIN Top.active
       /\ \A sid \in DOMAIN Top.inv \ ids : child[sid] = Top.inv[sid]
       /\ \E sid \in ids : c.num_batches = quotient(sid)
       /\ \A sid \in ids : RLe(c.num_batches, quotient(sid))
       /\ \A sid \in ids :
             child[sid] = Fl(RSub(Top.inv[sid],
                                  Fl(RMul(FromInt(ratio(sid)), c.num_batches))))
       /\ \A sid \in ids :
             RLe(RSub(Zero, slack(Top.inv[sid])), child[sid])
       /\ \E sid \in ids : RLe(RAbs(child[sid]), slack(Top.inv[sid]))

NoSlack(q) == Zero

\* C23 (as the code has it): the child inventory of a candidate holds, for
\* each participant, its previous quantity minus ratio * batch-count with
\* batch-count the least remaining / ratio, every other stream unchanged; a
\* participant ends no further below 0 than the rounding error of the three
\* float operations on its previous quantity, and at least one participant
\* ends within that error of 0.
C23_ChildWithinRounding == [][RecursesInto => ChildInventory(Tol)]_vars

\* C23 as claimed: every quantity of the child is >= 0 and at least one
\* participant is exactly 0.
C23_ChildExactlyDepleted == [][RecursesInto => ChildInventory(NoSlack)]_vars

\* A node that has recursed into a candidate which left no participant at
\* exactly 0: the least one keeps a float residue.
C23_Witness ==
    /\ pc = "call"
    /\ mantissa > 0
    /\ stack # <<>>
    /\ LET ids == SeqToSet(Top.candidates[Top.i + 1].tmpl.stream_ids)
       IN /\ Cardinality(ids) = 2
          /\ \A sid \in ids : arg.inv[sid] # Zero
          /\ \E sid \in ids : RLt(arg.inv[sid], Zero)

\* The canonical key of the inventory of the call being entered.
ArgActive == ActiveOf(arg.inv)
ArgKey == MemoKey(ArgActive)

\* A node that leaves its candidate loop (candidates exhausted, the pruning
\* break, or no candidate at all) stores the pair it returns under its key and
\* leaves the other entries alone.
LoopNodeStores ==
    NodeFinishes =>
        /\ Top.memo_key = MemoKey(ActiveOf(Top.inv))
        /\ DOMAIN memo' = DOMAIN memo \cup {Top.memo_key}
        /\ memo'[Top.memo_key] = ret'
        /\ \A k \in DOMAIN memo \ {Top.memo_key} : memo'[k] = memo[k]

\* A call on a key that is stored is a hit: it returns the stored pair and
\* opens no activation (no candidates, no recursion).
StoredKeyHits ==
    (pc = "call" /\ DOMAIN ArgActive # {} /\ arg.depth <= N /\ ArgKey \in DOMAIN memo) =>
        /\ pc' = "ret"
        /\ ret' = memo[ArgKey]
        /\ stack' = stack
        /\ memo' = memo
        /\ stats' = [stats EXCEPT !.memo_hits = @ + 1]

\* A terminal call and a call past the depth bound return without a store.
EarlyReturnsStoreNothing ==
    (pc = "call" /\ (DOMAIN ArgActive = {} \/ arg.depth > N)) =>
        /\ pc' = "ret"
        /\ ret' = [sub_cost |-> IF DOMAIN ArgActive = {} THEN Zero ELSE Inf,
                   phases |-> <<>>]
        /\ stack' = stack
        /\ memo' = memo

\* C24 (as the code has it): a node that finishes by exhausting its
\* candidates, by the pruning break or by having no candidate stores its
\* result under its canonical key before it returns; a terminal node (and a
\* node past the depth bound) returns without storing; a later call within
\* the depth bound on a stored key is a hit that returns the stored pair
\* without generating candidates or recursing.
C24_LoopNodesStored ==
    [][LoopNodeStores /\ StoredKeyHits /\ EarlyReturnsStoreNothing]_vars

\* C24 as claimed: every call that returns, terminal ones included, has its
\* result in the memo under the canonical key of its inventory.
C24_EveryNodeStored ==
    [][/\ NodeFinishes => memo'[Top.memo_key] = ret'
       /\ (pc = "call" /\ pc' = "ret") =>
             /\ ArgKey \in DOMAIN memo'
             /\ memo'[ArgKey] = ret']_vars

\* A terminal call has just returned (0, []) in a run that had a memo hit: the
\* table has entries, none of them under the terminal node's (empty) key.
C24_Witness ==
    /\ pc = "ret"
    /\ DOMAIN ArgActive = {}
    /\ DOMAIN arg.inv # {}
    /\ ret = [sub_cost |-> Zero, phases |-> <<>>]
    /\ stats.memo_hits > 0
    /\ memo # <<>>
    /\ ArgKey \notin DOMAIN memo

\* The (subset, ratio vector) pairs of the input, counted as sets: the vectors
\* of generate_ratios for the subset's size, and those the oracle accepts.
SubsetsOfInput == (SUBSET DOMAIN streams) \ {{}}
InIdOrder(s) == SelectSeq(IdOrder, LAMBDA sid : sid \in s)
VectorsOf(s) == SeqToSet(generate_ratios(Cardinality(s), cfg.ratio_sum_max))
FeasibleOf(s) ==
    {r \in VectorsOf(s) : evaluate_template(InIdOrder(s), r, streams, cfg).feasible}

RECURSIVE SumOver(_, _)
SumOver(S, count) ==
    IF S = {} THEN 0
    ELSE LET s == CHOOSE x \in S : TRUE IN count[s] + SumOver(S \ {s}, count)

Quota(n) == IF n < _MAX_TEMPLATES_PER_SUBSET THEN n ELSE _MAX_TEMPLATES_PER_SUBSET

IndexKeys == {all_templates[i].key : i \in 1..Len(all_templates)}

\* What _precompute_templates left in the index and the statistics, stated
\* where it has just returned (the root call is about to be entered) and where
\* search() has returned; SearchKeepsIndex carries it over the states between.
PrecomputeCounts ==
    ((pc = "call" /\ stack = <<>> /\ arg.depth = 0) \/ pc = "done") =>
        LET vectors  == [s \in SubsetsOfInput |-> Cardinality(VectorsOf(s))]
            feasible == [s \in SubsetsOfInput |-> Cardinality(FeasibleOf(s))]
        IN /\ stats.evaluated = SumOver(SubsetsOfInput, vectors)
           /\ stats.evaluated = stats.pruned_infeasible + SumOver(SubsetsOfInput, feasible)
           /\ IndexKeys = {s \in SubsetsOfInput : feasible[s] >= 1}
           /\ Len(all_templates) = Cardinality(IndexKeys)
           /\ \A i \in 1..Len(all_templates) :
                 Len(all_templates[i].kept) = Quota(feasible[all_templates[i].key])
           /\ stats.templates_kept =
                 SumOver(IndexKeys, [s \in IndexKeys |-> Quota(feasible[s])])

\* The recursive search leaves the index and the precompute counters alone.
SearchKeepsIndex ==
    pc # "start" =>
        /\ all_templates' = all_templates
        /\ stats'.evaluated = stats.evaluated
        /\ stats'.pruned_infeasible = stats.pruned_infeasible
        /\ stats'.templates_kept = stats.templates_kept

\* C25: _precompute_templates evaluates each (non-empty subset, ratio vector)
\* pair once: evaluated is the number of pairs and equals pruned_infeasible
\* plus the number of feasible pairs; a subset is an index key iff it has a
\* feasible pair; templates_kept is the sum over indexed subsets of
\* min(30, feasible pairs); the recursive search changes none of these.
C25_PrecomputeOnce == [](PrecomputeCounts) /\ [][SearchKeepsIndex]_vars

\* A finished search whose input had pairs the oracle rejected, a subset over
\* the quota, and a search that recursed and hit the memo.
C25_Witness ==
    /\ pc = "done"
    /\ stats.pruned_infeasible > 0
    /\ \E s \in IndexKeys : Cardinality(FeasibleOf(s)) > _MAX_TEMPLATES_PER_SUBSET
    /\ stats.templates_kept < stats.evaluated - stats.pruned_infeasible
    /\ memo # <<>>

\* The five itemized costs of a phase, added in the order of calc_phase_cost.
ItemizedSum(p) ==
    RAdd(RAdd(RAdd(RAdd(p.cost_diesel, p.cost_naoh), p.cost_water),
              p.cost_electricity), p.cost_labor)

\* sum(p.runtime_min for p in phases), from the left.
RECURSIVE RuntimeSum(_, _)
RuntimeSum(phases, acc) ==
    IF phases = <<>> THEN acc
    ELSE RuntimeSum(Tail(phases), RAdd(acc, Head(phases).runtime_min))

\* The rounding of Q_phase, of runtime_min and of the candidate's cost:
\* (1 + u)^2 / (1 - u) - 1 <= 4u for u = 2^-p.
CostTol(q) ==
    IF mantissa = 0 THEN Zero
    ELSE RDiv(RMul(FromInt(4), q), FromInt(pow2(mantissa)))

\* The step in which a node adopts a better sequence and builds its PhaseResult.
PhaseBuilt ==
    /\ pc = "ret"
    /\ stack # <<>>
    /\ stack'[Len(stack)].best_phases # Top.best_phases

\* The phase just built, against the candidate (cost, template, batch-count)
\* it was built from; cost_total is within slack of the candidate's cost.
BuiltPhaseMatches(slack(_)) ==
    LET c == NextCandidate
        t == c.tmpl
        p == Head(stack'[Len(stack)].best_phases)
    IN /\ \E k \in 1..Len(all_templates) : t \in SeqToSet(all_templates[k].kept)
       /\ DOMAIN p.streams = SeqToSet(t.stream_ids)
       /\ \A j \in 1..Len(t.stream_ids) : p.streams[t.stream_ids[j]] = t.ratios[j]
       /\ p.W = t.W
       /\ p.Q_phase = Fl(RMul(FromInt(SumSeq(t.ratios)), c.num_batches))
       /\ p.runtime_min = Fl(RDiv(p.Q_phase, t.W))
       /\ p.cost_total = ItemizedSum(p)
       /\ c.cost = Fl(RMul(c.num_batches, t.cost_per_batch))
       /\ RLe(RAbs(RSub(p.cost_total, c.cost)), slack(c.cost))
       /\ Tail(stack'[Len(stack)].best_phases) = ret.phases

\* What search() and build_optimized_schedule hand back.
ReturnedPhasesConsistent ==
    (pc = "done" /\ ~IsInf(result.best_cost)) =>
        /\ \A i \in 1..Len(result.best_phases) :
              LET p == result.best_phases[i]
              IN /\ p.runtime_min = Fl(RDiv(p.Q_phase, p.W))
                 /\ p.cost_total = ItemizedSum(p)
        /\ result.schedule.phases = result.best_phases
        /\ result.schedule.total_runtime_min = RuntimeSum(result.best_phases, Zero)

InputsUntouched == streams' = streams

\* A node's activation holds the inventory it was called with, and keeps it
\* for as long as it is on the stack, whatever its descendants do.
NodeInventoryKept ==
    /\ (pc = "call" /\ pc' = "loop") => stack'[Len(stack')].inv = arg.inv
    /\ \A k \in 1..Len(stack) :
          k <= Len(stack') =>
             /\ stack'[k].inv = stack[k].inv
             /\ stack'[k].active = stack[k].active
             /\ stack'[k].candidates = stack[k].candidates

\* Each candidate is applied to that inventory: the child has the node's
\* streams, the node's quantity for every stream outside the candidate, and
\* the node's quantity less ratio x batch-count for every stream inside.
SiblingOnNodeInventory ==
    RecursesInto =>
        LET c == NextCandidate
            ids == c.tmpl.stream_ids
        IN /\ DOMAIN arg'.inv = DOMAIN Top.inv
           /\ \A sid \in DOMAIN Top.inv \ SeqToSet(ids) : arg'.inv[sid] = Top.inv[sid]
           /\ \A j \in 1..Len(ids) :
                 arg'.inv[ids[j]] =
                     Fl(RSub(Top.inv[ids[j]],
                             Fl(RMul(FromInt(c.tmpl.ratios[j]), c.num_batches))))

\* C27: search() never writes the input streams, and recursing into a
\* candidate never changes the inventory of the node being expanded: every
\* sibling candidate is applied to the inventory the node was entered with.
C27_InventoriesNotShared ==
    [][InputsUntouched /\ NodeInventoryKept /\ SiblingOnNodeInventory]_vars

\* A later sibling has just been applied below the root: the first
\* candidate's subtree is done, the node still holds a stream that is already
\* depleted, and the child differs from the node's inventory.
C27_Witness ==
    /\ pc = "call"
    /\ Len(stack) >= 2
    /\ Top.i >= 1
    /\ arg.inv # Top.inv
    /\ DOMAIN Top.active # DOMAIN Top.inv
    /\ \A sid \in DOMAIN streams : stack[1].inv[sid] = streams[sid].quantity_L

\* C28 as claimed: each applied phase strictly shrinks the set of active
\* streams (remaining > 0.5), so that no path needs the depth bound.
C28_ActiveSetShrinks ==
    [][RecursesInto =>
          /\ DOMAIN ActiveOf(arg'.inv) \subseteq DOMAIN Top.active
          /\ DOMAIN ActiveOf(arg'.inv) # DOMAIN Top.active]_vars

\* max(max(0, solid/solid_max - 1), max(0, salt/salt_max - 1)), each operation
\* a float operation.
MaxOfBoth ==
    RMax(RMax(Zero, Fl(RSub(Fl(RDiv(arg.solid_pct, cfg.solid_max_pct)), One))),
         RMax(Zero, Fl(RSub(Fl(RDiv(arg.salt_ppm, cfg.salt_max_ppm)), One))))

\* Both parameters are within their maxima, or above by at most slack, once
\* the blend is diluted by r (the quotient taken exactly).
DilutedWithin(r, slack(_)) ==
    /\ RLe(RDiv(arg.solid_pct, RAdd(One, r)),
           RAdd(cfg.solid_max_pct, slack(cfg.solid_max_pct)))
    /\ RLe(RDiv(arg.salt_ppm, RAdd(One, r)),
           RAdd(cfg.salt_max_ppm, slack(cfg.salt_max_ppm)))

MemoEntriesKept ==
    /\ pc # "start" =>
          \A k \in DOMAIN memo : k \in DOMAIN memo' /\ memo'[k] = memo[k]
    /\ NodeFinishes => Top.memo_key \notin DOMAIN memo

\* The keys of the nodes on one recursion path differ from each other, and
\* from the key of the call being entered below them.
PathKeysDiffer ==
    /\ \A i, j \in 1..Len(stack) : i # j => stack[i].memo_key # stack[j].memo_key
    /\ pc = "call" => \A i \in 1..Len(stack) : stack[i].memo_key # ArgKey

\* C30: within one search() call each memo key is written at most once and a
\* stored entry (cost and phase list) is never modified afterwards, hits
\* included; a node's key never equals the key of one of its descendants.
C30_MemoWriteOnce == [](PathKeysDiffer) /\ [][MemoEntriesKept]_vars

\* A hit has just handed the stored pair of a non-terminal state, with a
\* non-empty phase list, to a node that is inside its candidate loop; the
\* table holds another entry as well.
C30_Witness ==
    /\ pc = "ret"
    /\ Len(stack) >= 1
    /\ stats.memo_hits > 0
    /\ DOMAIN ArgActive # {}
    /\ ArgKey \in DOMAIN memo
    /\ ret = memo[ArgKey]
    /\ ret.phases # <<>>
    /\ Cardinality(DOMAIN memo) >= 2
====
